---- MODULE Spec2Model ----
(***************************************************************************)
(* XBOX-RGB firmware: the LED rendering engine (RGBCtrl.cpp), its          *)
(* configuration store and the UDP control plane (RGBudp.cpp), as driven   *)
(* by the cooperative main loop of XBOX_RGB.ino.                           *)
(*                                                                         *)
(* Abstractions:                                                           *)
(*  - a JSON text is represented by the document it denotes: a function    *)
(*    from the keys that are present to their values; an unparseable text  *)
(*    is the document BadJson;                                             *)
(*  - MAX_PER_CH (50 pixels per channel in the firmware) is scaled down;   *)
(*  - the effects other than Solid and Custom write an effect colour `fx`  *)
(*    chosen by the environment to the ring pixels (they only write        *)
(*    through setRing/fillRing/fadeRing);                                  *)
(*  - micros() is a UsBits-wide wrapping counter.                          *)
(***************************************************************************)
EXTENDS Integers, Sequences, FiniteSets, TLC

\* ------------------------------------------------------------------ limits
NUM_CH == 4
MAX_PER_CH == 2
MODE_SOLID == 0
MODE_RAINBOW == 4
MODE_CUSTOM == 14
MODE_COUNT == 15
bootFadeDurationMs == 3200
Channels == 0 .. (NUM_CH - 1)
Pixels == 0 .. (MAX_PER_CH - 1)

Min(a, b) == IF a < b THEN a ELSE b
Last(s) == s[Len(s)]
\* F applied to the value of v (v is evaluated once)
Let(v, F(_)) == CHOOSE y \in {F(x) : x \in {v}} : TRUE

\* ------------------------------------------------- JSON value conversions
\* ArduinoJson as<T>() on an integer: the value when it fits T, else 0.
AsU8(v) == IF v \in 0 .. 255 THEN v ELSE 0
AsU16(v) == IF v \in 0 .. 65535 THEN v ELSE 0
\* (colours in the model stay below 2^31, so only the sign can be out of range)
AsU32(v) == IF v < 0 THEN 0 ELSE v
AsInt(v) == v
Has(doc, k) == k \in DOMAIN doc
BadJson == [bad |-> TRUE]
IsBad(doc) == "bad" \in DOMAIN doc
\* doc["count"][i].as<uint16_t>(): a missing element reads as 0
ElemU16(arr, i) == IF i + 1 <= Len(arr) THEN AsU16(arr[i + 1]) ELSE 0
ElemIsNull(arr, i) == i + 1 > Len(arr)

\* ------------------------------------------------------------ colours
Red == 16711680
Amber == 16752640
Green == 65280
Blue == 255
Black == 0
CompR(c) == (c \div 65536) % 256
CompG(c) == (c \div 256) % 256
CompB(c) == c % 256
Pack(r, g, b) == (r * 65536) + (g * 256) + b
rgbFrom24(rgb) == Pack(CompR(rgb), CompG(rgb), CompB(rgb))

\* ------------------------------------------------------------ playlists
EmptyStr == [txt |-> "empty", steps |-> << >>]
EmptyArr == [txt |-> "array", steps |-> << >>]
Playlist(steps) == [txt |-> "array", steps |-> steps]

\* ------------------------------------------------------------ AppConfig
REVERSE_DEFAULTS == [i \in Channels |-> i \in {0, 3}]
AppConfig ==
  [count |-> [i \in Channels |-> MAX_PER_CH],
   brightness |-> 180, mode |-> 4, speed |-> 128, intensity |-> 128,
   width |-> 4,
   colorA |-> Red, colorB |-> Amber, colorC |-> Green, colorD |-> Blue,
   paletteCount |-> 2, resumeOnBoot |-> TRUE,
   enableCpu |-> TRUE, enableFan |-> TRUE,
   reverse |-> REVERSE_DEFAULTS,
   masterOff |-> FALSE, customSeq |-> EmptyArr, customLoop |-> TRUE]

ClampMode(m) == IF m < 0 THEN 0 ELSE IF m > MODE_COUNT - 1 THEN MODE_COUNT - 1 ELSE m
ClampWidth(w) == IF w < 1 THEN 1 ELSE IF w > 255 THEN 255 ELSE w
clampPaletteCount(pc) == IF pc < 1 THEN 1 ELSE IF pc > 4 THEN 4 ELSE pc
\* (ClampCount_None: a count taken as given.)
ClampCount_None(v) == v
ClampCount(v) == IF v > MAX_PER_CH THEN MAX_PER_CH ELSE v

\* The field-by-field overlay shared by parseConfig and loadConfig.
OverlayFields(doc, out) ==
  [count |-> IF Has(doc, "count")
               THEN [i \in Channels |-> ClampCount(ElemU16(doc.count, i))]
               ELSE out.count,
   brightness |-> IF Has(doc, "brightness") THEN AsU8(doc.brightness) ELSE out.brightness,
   mode |-> IF Has(doc, "mode") THEN ClampMode(AsInt(doc.mode)) ELSE out.mode,
   speed |-> IF Has(doc, "speed") THEN AsU8(doc.speed) ELSE out.speed,
   intensity |-> IF Has(doc, "intensity") THEN AsU8(doc.intensity) ELSE out.intensity,
   width |-> IF Has(doc, "width") THEN ClampWidth(AsInt(doc.width)) ELSE out.width,
   colorA |-> IF Has(doc, "colorA") THEN AsU32(doc.colorA) ELSE out.colorA,
   colorB |-> IF Has(doc, "colorB") THEN AsU32(doc.colorB) ELSE out.colorB,
   colorC |-> IF Has(doc, "colorC") THEN AsU32(doc.colorC) ELSE out.colorC,
   colorD |-> IF Has(doc, "colorD") THEN AsU32(doc.colorD) ELSE out.colorD,
   paletteCount |-> IF Has(doc, "paletteCount")
                      THEN clampPaletteCount(AsU8(doc.paletteCount))
                      ELSE out.paletteCount,
   resumeOnBoot |-> IF Has(doc, "resumeOnBoot") THEN doc.resumeOnBoot ELSE out.resumeOnBoot,
   enableCpu |-> IF Has(doc, "enableCpu") THEN doc.enableCpu ELSE out.enableCpu,
   enableFan |-> IF Has(doc, "enableFan") THEN doc.enableFan ELSE out.enableFan,
   reverse |-> IF Has(doc, "reverse")
                 THEN [i \in Channels |->
                         IF ElemIsNull(doc.reverse, i) THEN out.reverse[i]
                         ELSE doc.reverse[i + 1]]
                 ELSE out.reverse,
   masterOff |-> IF Has(doc, "masterOff") THEN doc.masterOff ELSE out.masterOff,
   customLoop |-> IF Has(doc, "customLoop") THEN doc.customLoop ELSE out.customLoop,
   customSeq |-> IF Has(doc, "customSeq") THEN doc.customSeq ELSE out.customSeq]

\* parseConfig(body, out): <<ok, out'>>
parseConfig(body, out) ==
  IF IsBad(body) THEN [ok |-> FALSE, cfg |-> out]
  ELSE [ok |-> TRUE, cfg |-> OverlayFields(body, out)]

\* The document written by saveConfig (the persistent subset).
PersistDoc(cfg) ==
  [count |-> [i \in 1 .. NUM_CH |-> cfg.count[i - 1]],
   brightness |-> cfg.brightness, mode |-> cfg.mode, speed |-> cfg.speed,
   intensity |-> cfg.intensity, width |-> cfg.width,
   colorA |-> cfg.colorA, colorB |-> cfg.colorB,
   colorC |-> cfg.colorC, colorD |-> cfg.colorD,
   paletteCount |-> cfg.paletteCount, resumeOnBoot |-> cfg.resumeOnBoot,
   enableCpu |-> cfg.enableCpu, enableFan |-> cfg.enableFan,
   reverse |-> [i \in 1 .. NUM_CH |-> cfg.reverse[i - 1]],
   masterOff |-> cfg.masterOff, customSeq |-> cfg.customSeq,
   customLoop |-> cfg.customLoop]

\* (configToJson_NoReverse: the serialization without the "reverse" array.)
configToJson_NoReverse(cfg, inPrev) ==
  [count |-> [i \in 1 .. NUM_CH |-> cfg.count[i - 1]],
   brightness |-> cfg.brightness, mode |-> cfg.mode, speed |-> cfg.speed,
   intensity |-> cfg.intensity, width |-> cfg.width,
   colorA |-> cfg.colorA, colorB |-> cfg.colorB,
   colorC |-> cfg.colorC, colorD |-> cfg.colorD,
   paletteCount |-> cfg.paletteCount, resumeOnBoot |-> cfg.resumeOnBoot,
   enableCpu |-> cfg.enableCpu, enableFan |-> cfg.enableFan,
   inPreview |-> inPrev,
   masterOff |-> cfg.masterOff, customSeq |-> cfg.customSeq,
   customLoop |-> cfg.customLoop,
   buildVersion |-> "1.6.1", copyright |-> "Darkone Customs 2025"]
\* configToJson(): the persistent subset plus the display-only fields.
configToJson(cfg, inPrev) ==
  [count |-> [i \in 1 .. NUM_CH |-> cfg.count[i - 1]],
   brightness |-> cfg.brightness, mode |-> cfg.mode, speed |-> cfg.speed,
   intensity |-> cfg.intensity, width |-> cfg.width,
   colorA |-> cfg.colorA, colorB |-> cfg.colorB,
   colorC |-> cfg.colorC, colorD |-> cfg.colorD,
   paletteCount |-> cfg.paletteCount, resumeOnBoot |-> cfg.resumeOnBoot,
   enableCpu |-> cfg.enableCpu, enableFan |-> cfg.enableFan,
   inPreview |-> inPrev,
   reverse |-> [i \in 1 .. NUM_CH |-> cfg.reverse[i - 1]],
   masterOff |-> cfg.masterOff, customSeq |-> cfg.customSeq,
   customLoop |-> cfg.customLoop,
   buildVersion |-> "1.6.1", copyright |-> "Darkone Customs 2025"]

NvsEmpty == [empty |-> TRUE]

\* ---------------------------------------------------------------- clocks
UsBits == 3
UsMod == 2 ^ UsBits
MsBits == 15
MsMod == 2 ^ MsBits
\* (int32_t)(a - b) at the modelled width
SignedDiffUs(a, b) ==
  LET d == (a - b + UsMod) % UsMod
  IN IF d >= UsMod \div 2 THEN d - UsMod ELSE d
\* uint32_t difference of two millis() readings at the modelled width
ElapsedMs(now, since) == (now - since + MsMod) % MsMod

\* -------------------------------------------------- Pixel Sink (NeoPixel)
\* The strip object keeps brightness+1 (0 = full scale) and a buffer of
\* already scaled bytes; show() transmits the buffer as it is.
ScaleByte(c, b) == IF b = 0 THEN c ELSE (c * b) \div 256
NeoSetPixelColor(r0, ch, px, c) == Let(r0, LAMBDA r :
  IF px >= MAX_PER_CH THEN r
  ELSE [r EXCEPT !.strips[ch][px] =
          Pack(ScaleByte(CompR(c), r.neoB), ScaleByte(CompG(c), r.neoB),
               ScaleByte(CompB(c), r.neoB))])
NeoRescale(c, scale) == (c * scale) \div 256 % 256
NeoSetBrightness(r0, b) == Let(r0, LAMBDA r :
  LET newB == (b + 1) % 256
      oldB == (r.neoB + 255) % 256
      scale == IF oldB = 0 THEN 0
               ELSE IF b = 255 THEN 65535 \div oldB
               ELSE ((newB * 256) - 1) \div oldB
  IN IF newB = r.neoB THEN r
     ELSE [r EXCEPT !.neoB = newB,
                    !.strips = [ch \in Channels |-> [px \in Pixels |->
                       Pack(NeoRescale(CompR(r.strips[ch][px]), scale),
                            NeoRescale(CompG(r.strips[ch][px]), scale),
                            NeoRescale(CompB(r.strips[ch][px]), scale))]]])
ClearStrips == [ch \in Channels |-> [px \in Pixels |-> Black]]

\* ------------------------------------------------------------ Ring Mapper
ringLen(cfg) == cfg.count[0] + cfg.count[1] + cfg.count[2] + cfg.count[3]
\* (rebuildRingMap_NoEmpty: a segment table that gives an empty channel one pixel.)
rebuildRingMap_NoEmpty(r0) == Let(r0, LAMBDA r :
  [r EXCEPT !.segs = [s \in Channels |->
     [ch |-> s, count |-> IF r.CFG.count[s] = 0 THEN 1 ELSE r.CFG.count[s]]]])
rebuildRingMap(r0) == Let(r0, LAMBDA r :
  [r EXCEPT !.segs = [s \in Channels |-> [ch |-> s, count |-> r.CFG.count[s]]]])
\* (SetRingFrom_FirstFlag: channel 1's reverse flag used for every channel.)
RECURSIVE SetRingFrom_FirstFlag(_, _, _, _, _)
SetRingFrom_FirstFlag(r0, s, base, idx, c) == Let(r0, LAMBDA r :
  IF s >= NUM_CH THEN r
  ELSE IF idx < base + r.segs[s].count
    THEN LET within == idx - base
             rev == r.CFG.reverse[0] /\ r.segs[s].count # 0
             px == IF rev THEN r.segs[s].count - 1 - within ELSE within
         IN NeoSetPixelColor(r, r.segs[s].ch, px, c)
    ELSE SetRingFrom_FirstFlag(r, s + 1, base + r.segs[s].count, idx, c))
RECURSIVE SetRingFrom(_, _, _, _, _)
SetRingFrom(r0, s, base, idx, c) == Let(r0, LAMBDA r :
  IF s >= NUM_CH THEN r
  ELSE IF idx < base + r.segs[s].count
    THEN LET within == idx - base
             rev == r.CFG.reverse[r.segs[s].ch] /\ r.segs[s].count # 0
             px == IF rev THEN r.segs[s].count - 1 - within ELSE within
         IN NeoSetPixelColor(r, r.segs[s].ch, px, c)
    ELSE SetRingFrom(r, s + 1, base + r.segs[s].count, idx, c))
setRing(r, idx, c) == SetRingFrom(r, 0, 0, idx, c)
RECURSIVE FillRingFrom(_, _, _, _)
FillRingFrom(r0, i, L, c) == Let(r0, LAMBDA r :
  IF i >= L THEN r ELSE FillRingFrom(setRing(r, i, c), i + 1, L, c))
fillRing(r0, c) == Let(r0, LAMBDA r : FillRingFrom(r, 0, ringLen(r.CFG), c))

\* showRing(): latch the brightness (boot fade or live) and transmit.
\* tx notes, for every frame this step transmitted, CFG.masterOff as it was
\* when the frame went out, whether every transmitted pixel was (0,0,0),
\* which transmitted pixels outside the counts were not, the brightness the
\* strips were set to and CFG.brightness;
\* the frame itself is the content of strips at that moment.
AllDark(strp) == \A ch \in Channels, px \in Pixels : strp[ch][px] = Black
Stray(r) == {cp \in Channels \X Pixels :
              cp[2] >= r.CFG.count[cp[1]] /\ r.strips[cp[1]][cp[2]] # Black}
\* (showRing_NoGlow: the ramp value used as it is, 0 included.)
showRing_NoGlow(r0, now) == Let(r0, LAMBDA r :
  LET elapsed == ElapsedMs(now, r.bootFadeStartMs)
      target == r.CFG.brightness
      ramp == IF elapsed >= bootFadeDurationMs THEN target
              ELSE (target * elapsed) \div bootFadeDurationMs
      cur == ramp
      r1 == IF r.bootFadeActive
              THEN LET a == [r EXCEPT !.bootFadeTarget = target]
                       b == IF cur # a.lastAppliedBrightness
                              THEN [NeoSetBrightness(a, cur) EXCEPT !.lastAppliedBrightness = cur]
                              ELSE a
                   IN IF elapsed >= bootFadeDurationMs
                        THEN [b EXCEPT !.bootFadeActive = FALSE] ELSE b
              ELSE IF r.lastAppliedBrightness # r.CFG.brightness
                THEN [NeoSetBrightness(r, r.CFG.brightness)
                        EXCEPT !.lastAppliedBrightness = r.CFG.brightness]
                ELSE r
  IN Let(r1, LAMBDA v : [v EXCEPT !.tx = Append(v.tx, [off |-> v.CFG.masterOff,
                                                       dark |-> AllDark(v.strips),
                                                       stray |-> Stray(v),
                                                       bright |-> (v.neoB + 255) % 256,
                                                       target |-> v.CFG.brightness])]))
showRing(r0, now) == Let(r0, LAMBDA r :
  LET elapsed == ElapsedMs(now, r.bootFadeStartMs)
      target == r.CFG.brightness
      ramp == IF elapsed >= bootFadeDurationMs THEN target
              ELSE (target * elapsed) \div bootFadeDurationMs
      cur == IF target # 0 /\ ramp = 0 THEN 1 ELSE ramp
      r1 == IF r.bootFadeActive
              THEN LET a == [r EXCEPT !.bootFadeTarget = target]
                       b == IF cur # a.lastAppliedBrightness
                              THEN [NeoSetBrightness(a, cur) EXCEPT !.lastAppliedBrightness = cur]
                              ELSE a
                   IN IF elapsed >= bootFadeDurationMs
                        THEN [b EXCEPT !.bootFadeActive = FALSE] ELSE b
              ELSE IF r.lastAppliedBrightness # r.CFG.brightness
                THEN [NeoSetBrightness(r, r.CFG.brightness)
                        EXCEPT !.lastAppliedBrightness = r.CFG.brightness]
                ELSE r
  IN Let(r1, LAMBDA v : [v EXCEPT !.tx = Append(v.tx, [off |-> v.CFG.masterOff,
                                                       dark |-> AllDark(v.strips),
                                                       stray |-> Stray(v),
                                                       bright |-> (v.neoB + 255) % 256,
                                                       target |-> v.CFG.brightness])]))

\* ------------------------------------------------------- Playlist Engine
NonObject == [nonobj |-> TRUE]
\* One element of the customSeq array as parseCustomSteps reads it.
CustomStep(o) ==
  [mode |-> IF Has(o, "mode") THEN AsInt(o.mode) % 256 ELSE MODE_SOLID,
   duration |-> LET dur == IF Has(o, "duration") THEN AsInt(o.duration) ELSE 1000
                IN IF dur < 1 THEN 1 ELSE IF dur > 60000 THEN 60000 ELSE dur,
   hasSpeed |-> Has(o, "speed"),
   speed |-> IF Has(o, "speed") THEN AsU8(o.speed) ELSE 0,
   hasIntensity |-> Has(o, "intensity"),
   intensity |-> IF Has(o, "intensity") THEN AsU8(o.intensity) ELSE 0,
   hasWidth |-> Has(o, "width"),
   width |-> IF Has(o, "width") THEN ClampWidth(AsInt(o.width)) ELSE 0,
   hasPCnt |-> Has(o, "paletteCount"),
   pcount |-> IF Has(o, "paletteCount") THEN clampPaletteCount(AsU8(o.paletteCount)) ELSE 0,
   hasA |-> Has(o, "colorA"), colorA |-> IF Has(o, "colorA") THEN AsU32(o.colorA) ELSE 0,
   hasB |-> Has(o, "colorB"), colorB |-> IF Has(o, "colorB") THEN AsU32(o.colorB) ELSE 0,
   hasC |-> Has(o, "colorC"), colorC |-> IF Has(o, "colorC") THEN AsU32(o.colorC) ELSE 0,
   hasD |-> Has(o, "colorD"), colorD |-> IF Has(o, "colorD") THEN AsU32(o.colorD) ELSE 0]
RECURSIVE ParseStepsFrom(_, _)
ParseStepsFrom(arr, i) ==
  IF i > Len(arr) THEN << >>
  ELSE IF Has(arr[i], "nonobj") THEN ParseStepsFrom(arr, i + 1)
  ELSE << CustomStep(arr[i]) >> \o ParseStepsFrom(arr, i + 1)
parseCustomSteps(js) ==
  IF js.txt = "array" THEN ParseStepsFrom(js.steps, 1) ELSE << >>

applyStepOverrides(cfg, s) ==
  [cfg EXCEPT !.speed = IF s.hasSpeed THEN s.speed ELSE @,
              !.intensity = IF s.hasIntensity THEN s.intensity ELSE @,
              !.width = IF s.hasWidth THEN s.width ELSE @,
              !.paletteCount = IF s.hasPCnt THEN s.pcount ELSE @,
              !.colorA = IF s.hasA THEN s.colorA ELSE @,
              !.colorB = IF s.hasB THEN s.colorB ELSE @,
              !.colorC = IF s.hasC THEN s.colorC ELSE @,
              !.colorD = IF s.hasD THEN s.colorD ELSE @]

animSolid(r0) == Let(r0, LAMBDA r : fillRing(r, rgbFrom24(r.CFG.colorA)))
\* Breathe .. Palette Chase: the effect colour of this frame on the ring.
AnimEffect(r, fx) == fillRing(r, fx)
RunMode(r, m, fx) ==
  IF m = MODE_SOLID THEN animSolid(r)
  ELSE IF m \in 1 .. 13 THEN AnimEffect(r, fx)
  ELSE animSolid(r)

animCustom(r0, now, fx) == Let(r0, LAMBDA r :
  LET r1 == IF r.lastJs # r.CFG.customSeq
              THEN [r EXCEPT !.seq = parseCustomSteps(r.CFG.customSeq),
                             !.lastJs = r.CFG.customSeq,
                             !.idx = 0, !.stepStart = now]
              ELSE r
  IN IF r1.seq = << >> THEN fillRing(r1, Black)
     ELSE
       LET s == r1.seq[r1.idx + 1]
           r2 == IF r1.idx # r1.lastIdx
                   THEN [r1 EXCEPT !.CFG = applyStepOverrides(r1.CFG, s),
                                   !.lastIdx = r1.idx]
                   ELSE r1
       IN Let(RunMode(r2, s.mode, fx), LAMBDA r3 :
            IF ElapsedMs(now, r3.stepStart) >= s.duration
              THEN [r3 EXCEPT !.stepStart = now,
                              !.idx = IF r3.idx + 1 >= Len(r3.seq)
                                        THEN (IF r3.CFG.customLoop THEN 0 ELSE Len(r3.seq) - 1)
                                        ELSE r3.idx + 1]
              ELSE r3))

\* ------------------------------------------------------ Frame selection
renderFrame(r0, now, fx) == Let(r0, LAMBDA r :
  IF r.CFG.masterOff THEN showRing(fillRing(r, Black), now)
  ELSE showRing(
         IF r.CFG.mode = MODE_CUSTOM THEN animCustom(r, now, fx)
         ELSE IF r.CFG.mode \in 0 .. 13 THEN RunMode(r, r.CFG.mode, fx)
         ELSE r, now))

\* ---------------------------------------------------------- Config Store
defaults(r) == [r EXCEPT !.CFG = AppConfig]
applyConfig(r0) == Let(r0, LAMBDA r :
  [NeoSetBrightness(rebuildRingMap(r), r.CFG.brightness)
     EXCEPT !.lastAppliedBrightness = r.CFG.brightness])
loadConfig(r0) == Let(r0, LAMBDA r :
  IF r.nvs = NvsEmpty THEN defaults(r)
  ELSE IF IsBad(r.nvs) THEN r
  ELSE [r EXCEPT !.CFG = OverlayFields(r.nvs, r.CFG)])
saveConfig(r0) == Let(r0, LAMBDA r : [r EXCEPT !.nvs = PersistDoc(r.CFG)])

setCounts(r0, c) == Let(r0, LAMBDA r :
  rebuildRingMap([r EXCEPT !.CFG.count = [i \in Channels |-> ClampCount(c[i + 1])]]))
\* (applyJsonPreview_Saves: a preview that is written to NVS as well.)
applyJsonPreview_Saves(r0, json, now, fx) == Let(r0, LAMBDA r :
  LET p == parseConfig(json, r.CFG)
  IN IF ~p.ok THEN r
     ELSE renderFrame(saveConfig(applyConfig([r EXCEPT !.CFG = p.cfg, !.inPreview = TRUE])), now, fx))
applyJsonPreview(r0, json, now, fx) == Let(r0, LAMBDA r :
  LET p == parseConfig(json, r.CFG)
  IN IF ~p.ok THEN r
     ELSE renderFrame(applyConfig([r EXCEPT !.CFG = p.cfg, !.inPreview = TRUE]), now, fx))
\* (applyJsonSave_FlagFirst: a save that clears inPreview before it parses.)
applyJsonSave_FlagFirst(r0, json, now, fx) == Let(r0, LAMBDA r :
  LET p == parseConfig(json, r.CFG)
  IN IF ~p.ok THEN [r EXCEPT !.inPreview = FALSE]
     ELSE renderFrame(saveConfig(applyConfig([r EXCEPT !.CFG = p.cfg, !.inPreview = FALSE])), now, fx))
applyJsonSave(r0, json, now, fx) == Let(r0, LAMBDA r :
  LET p == parseConfig(json, r.CFG)
  IN IF ~p.ok THEN r
     ELSE renderFrame(saveConfig(applyConfig([r EXCEPT !.CFG = p.cfg, !.inPreview = FALSE])), now, fx))
getConfigJson(r0) == Let(r0, LAMBDA r : configToJson(r.CFG, r.inPreview))
resetToDefaults(r, now, fx) ==
  renderFrame(applyConfig([defaults([r EXCEPT !.nvs = NvsEmpty]) EXCEPT !.inPreview = FALSE]), now, fx)

\* State of RGBCtrl after begin() with the given NVS content.  web is the
\* position of the async web-server task inside the handler it is running.
WebIdle == [at |-> "idle"]
RgbBegin(nvs0, now, fx) ==
  LET r0 == [CFG |-> AppConfig, inPreview |-> FALSE,
             segs |-> [s \in Channels |-> [ch |-> 0, count |-> 0]],
             strips |-> ClearStrips, neoB |-> 1, lastAppliedBrightness |-> 0,
             bootFadeActive |-> FALSE, bootFadeStartMs |-> 0, bootFadeTarget |-> 0,
             nvs |-> nvs0,
             seq |-> << >>, lastJs |-> EmptyStr, stepStart |-> 0, idx |-> 0, lastIdx |-> -1,
             web |-> WebIdle, tx |-> << >>]
      r1 == applyConfig(loadConfig(r0))
      r2 == [NeoSetBrightness(r1, 0) EXCEPT !.bootFadeTarget = r1.CFG.brightness,
                                            !.bootFadeStartMs = now,
                                            !.bootFadeActive = TRUE,
                                            !.lastAppliedBrightness = 0]
  IN renderFrame(r2, now, fx)

\* ------------------------------------------------------- UDP control plane
ADVERT_FAST_MS == 3000
ADVERT_SLOW_MS == 15000
FastBursts == 3
\* The station link while the device serves its own access point.
LinkDown == [up |-> FALSE, ip |-> 0]
\* u bundles the RGBCtrlUDP statics; u.out collects the replies and
\* u.applied the heavy items of the current step.
quietActive(u, nowUs) == SignedDiffUs(u.gQuietUntilUs, nowUs) > 0
\* (enterSmbusQuietUs_Overwrite: the deadline set without looking at the window.)
enterSmbusQuietUs_Overwrite(u, nowUs, dur) ==
  [u EXCEPT !.gQuietUntilUs = (nowUs + dur) % UsMod]
enterSmbusQuietUs(u, nowUs, dur) ==
  LET t == (nowUs + dur) % UsMod
  IN IF SignedDiffUs(u.gQuietUntilUs, nowUs) > 0
       THEN (IF SignedDiffUs(t, u.gQuietUntilUs) > 0
               THEN [u EXCEPT !.gQuietUntilUs = t] ELSE u)
       ELSE [u EXCEPT !.gQuietUntilUs = t]

reply(u, msg) == [u EXCEPT !.out = Append(@, msg)]
replyOk(u, op) == reply(u, [ok |-> TRUE, op |-> op])
replyOkCfg(u, op, cfg) == reply(u, [ok |-> TRUE, op |-> op, cfg |-> cfg])
replyErr(u, op, err) == reply(u, [ok |-> FALSE, op |-> op, err |-> err])
buildDiscoverJson == [ok |-> TRUE, op |-> "discover", name |-> "XBOX RGB"]
handlePlain(u, s) ==
  IF s = "RGBDISC?" \/ s = "RGBDISC?\n"
    THEN reply(u, [text |-> "RGBDISC! ", json |-> buildDiscoverJson])
    ELSE replyErr(u, "raw", "unknown text")
\* (checkKey_AnyString: a key check that accepts every string.)
checkKey_AnyString(u, root) ==
  IF u.gPSK = "" THEN TRUE
  ELSE IF ~Has(root, "key") THEN FALSE
  ELSE Has(root.key, "str")
\* A JSON value of the key field: a string [str |-> s] or a number [num |-> n].
checkKey(u, root) ==
  IF u.gPSK = "" THEN TRUE
  ELSE IF ~Has(root, "key") THEN FALSE
  ELSE IF ~Has(root.key, "str") THEN FALSE
  ELSE u.gPSK = root.key.str

\* Order of receipt of the requests that are pending (bookkeeping for the
\* ordering properties; the firmware keeps no such list).
Without(seq, k) == SelectSeq(seq, LAMBDA x : x # k)
Requeue(order, k, fromRaw) ==
  IF fromRaw
    THEN LET o == [i \in 1 .. Len(order) |-> IF order[i] = "raw" THEN "new" ELSE order[i]]
             o1 == Without(o, k)
         IN [i \in 1 .. Len(o1) |-> IF o1[i] = "new" THEN k ELSE o1[i]]
    ELSE Append(Without(order, k), k)

queuePreviewOrSave(u, js, isSave, fromRaw) ==
  [u EXCEPT !.pendJson = js, !.pendIsSave = isSave, !.pendHasCfg = TRUE,
            !.pendOrder = Requeue(@, "cfg", fromRaw)]
ToU16(v) == v % 65536
queueSetCounts(u, c, fromRaw) ==
  [u EXCEPT !.pendCounts = c, !.pendHasCounts = TRUE,
            !.pendOrder = Requeue(@, "counts", fromRaw)]
CfgOf(doc) == IF Has(doc, "cfg") THEN doc.cfg ELSE doc

\* (handleJsonPacket_ResetNow: a receive path that restores the defaults itself.)
handleJsonPacket_ResetNow(u, r, doc, fromRaw) ==
  LET done(v) == [u |-> IF fromRaw THEN [v EXCEPT !.pendOrder = Without(@, "raw")] ELSE v,
                  r |-> r]
      queued(v) == [u |-> v, r |-> r]
  IN IF IsBad(doc) THEN done(replyErr(u, "parse", "bad json"))
     ELSE IF ~checkKey(u, doc) THEN done(replyErr(u, "auth", "bad key"))
     ELSE IF ~Has(doc, "op") \/ doc.op = "" THEN done(replyErr(u, "op", "missing op"))
     ELSE IF doc.op = "discover" THEN done(reply(u, buildDiscoverJson))
     ELSE IF doc.op = "get" THEN done(replyOkCfg(u, "get", getConfigJson(r)))
     ELSE IF doc.op = "preview"
       THEN queued(replyOk(queuePreviewOrSave(u, CfgOf(doc), FALSE, fromRaw), "preview"))
     ELSE IF doc.op = "save"
       THEN queued(replyOk(queuePreviewOrSave(u, CfgOf(doc), TRUE, fromRaw), "save"))
     ELSE IF doc.op = "reset"
       THEN [u |-> done(replyOk(u, "reset")).u, r |-> defaults(r)]
     ELSE IF doc.op = "setCounts"
       THEN IF ~Has(doc, "c") \/ Len(doc.c) < 4
              THEN done(replyErr(u, "setCounts", "need 4 ints"))
              ELSE queued(replyOk(queueSetCounts(u, [i \in 1 .. 4 |-> ToU16(doc.c[i])],
                                                 fromRaw), "setCounts"))
     ELSE done(replyErr(u, "op", "unknown op"))
\* (handleJsonPacket_OpFirst: the op is looked at before the key.)
handleJsonPacket_OpFirst(u, r, doc, fromRaw) ==
  LET done(v) == [u |-> IF fromRaw THEN [v EXCEPT !.pendOrder = Without(@, "raw")] ELSE v,
                  r |-> r]
      queued(v) == [u |-> v, r |-> r]
  IN IF IsBad(doc) THEN done(replyErr(u, "parse", "bad json"))
     ELSE IF ~Has(doc, "op") \/ doc.op = "" THEN done(replyErr(u, "op", "missing op"))
     ELSE IF ~checkKey(u, doc) THEN done(replyErr(u, "auth", "bad key"))
     ELSE IF doc.op = "discover" THEN done(reply(u, buildDiscoverJson))
     ELSE IF doc.op = "get" THEN done(replyOkCfg(u, "get", getConfigJson(r)))
     ELSE IF doc.op = "preview"
       THEN queued(replyOk(queuePreviewOrSave(u, CfgOf(doc), FALSE, fromRaw), "preview"))
     ELSE IF doc.op = "save"
       THEN queued(replyOk(queuePreviewOrSave(u, CfgOf(doc), TRUE, fromRaw), "save"))
     ELSE IF doc.op = "reset"
       THEN queued(replyOk([u EXCEPT !.pendDoReset = TRUE,
                                     !.pendOrder = Requeue(@, "reset", fromRaw)], "reset"))
     ELSE IF doc.op = "setCounts"
       THEN IF ~Has(doc, "c") \/ Len(doc.c) < 4
              THEN done(replyErr(u, "setCounts", "need 4 ints"))
              ELSE queued(replyOk(queueSetCounts(u, [i \in 1 .. 4 |-> ToU16(doc.c[i])],
                                                 fromRaw), "setCounts"))
     ELSE done(replyErr(u, "op", "unknown op"))
\* (handleJsonPacket_QueuesShort: a short count list is refused but marked pending.)
handleJsonPacket_QueuesShort(u, r, doc, fromRaw) ==
  LET done(v) == [u |-> IF fromRaw THEN [v EXCEPT !.pendOrder = Without(@, "raw")] ELSE v,
                  r |-> r]
      queued(v) == [u |-> v, r |-> r]
  IN IF IsBad(doc) THEN done(replyErr(u, "parse", "bad json"))
     ELSE IF ~checkKey(u, doc) THEN done(replyErr(u, "auth", "bad key"))
     ELSE IF ~Has(doc, "op") \/ doc.op = "" THEN done(replyErr(u, "op", "missing op"))
     ELSE IF doc.op = "discover" THEN done(reply(u, buildDiscoverJson))
     ELSE IF doc.op = "get" THEN done(replyOkCfg(u, "get", getConfigJson(r)))
     ELSE IF doc.op = "preview"
       THEN queued(replyOk(queuePreviewOrSave(u, CfgOf(doc), FALSE, fromRaw), "preview"))
     ELSE IF doc.op = "save"
       THEN queued(replyOk(queuePreviewOrSave(u, CfgOf(doc), TRUE, fromRaw), "save"))
     ELSE IF doc.op = "reset"
       THEN queued(replyOk([u EXCEPT !.pendDoReset = TRUE,
                                     !.pendOrder = Requeue(@, "reset", fromRaw)], "reset"))
     ELSE IF doc.op = "setCounts"
       THEN IF ~Has(doc, "c") \/ Len(doc.c) < 4
              THEN done(replyErr([u EXCEPT !.pendHasCounts = TRUE], "setCounts", "need 4 ints"))
              ELSE queued(replyOk(queueSetCounts(u, [i \in 1 .. 4 |-> ToU16(doc.c[i])],
                                                 fromRaw), "setCounts"))
     ELSE done(replyErr(u, "op", "unknown op"))
\* handleJsonPacket: the new statics of both modules.
handleJsonPacket(u, r, doc, fromRaw) ==
  LET done(v) == [u |-> IF fromRaw THEN [v EXCEPT !.pendOrder = Without(@, "raw")] ELSE v,
                  r |-> r]
      queued(v) == [u |-> v, r |-> r]
  IN IF IsBad(doc) THEN done(replyErr(u, "parse", "bad json"))
     ELSE IF ~checkKey(u, doc) THEN done(replyErr(u, "auth", "bad key"))
     ELSE IF ~Has(doc, "op") \/ doc.op = "" THEN done(replyErr(u, "op", "missing op"))
     ELSE IF doc.op = "discover" THEN done(reply(u, buildDiscoverJson))
     ELSE IF doc.op = "get" THEN done(replyOkCfg(u, "get", getConfigJson(r)))
     ELSE IF doc.op = "preview"
       THEN queued(replyOk(queuePreviewOrSave(u, CfgOf(doc), FALSE, fromRaw), "preview"))
     ELSE IF doc.op = "save"
       THEN queued(replyOk(queuePreviewOrSave(u, CfgOf(doc), TRUE, fromRaw), "save"))
     ELSE IF doc.op = "reset"
       THEN queued(replyOk([u EXCEPT !.pendDoReset = TRUE,
                                     !.pendOrder = Requeue(@, "reset", fromRaw)], "reset"))
     ELSE IF doc.op = "setCounts"
       THEN IF ~Has(doc, "c") \/ Len(doc.c) < 4
              THEN done(replyErr(u, "setCounts", "need 4 ints"))
              ELSE queued(replyOk(queueSetCounts(u, [i \in 1 .. 4 |-> ToU16(doc.c[i])],
                                                 fromRaw), "setCounts"))
     ELSE done(replyErr(u, "op", "unknown op"))

\* sendDiscovery(): the discover JSON and its text variant, both to
\* 255.255.255.255:port (a message without bcast goes to the sender).
sendDiscovery(u) ==
  [u EXCEPT !.out = @ \o << [bcast |-> TRUE, json |-> buildDiscoverJson, ip |-> u.wifi.ip],
                            [bcast |-> TRUE, text |-> "RGBDISC! ", json |-> buildDiscoverJson,
                             ip |-> u.wifi.ip] >>]
\* RGBCtrlUDP::loop(), the periodic advertisement.  wifi is the station link:
\* whether WiFi.status() is WL_CONNECTED, and WiFi.localIP().
\* (advertise_RearmsTwo: an address change that re-arms two fast announces.)
advertise_RearmsTwo(u0, now) == Let(u0, LAMBDA u :
  IF ~u.wifi.up THEN u
  ELSE LET u1 == IF u.wifi.ip # u.lastIp
                   THEN [sendDiscovery(u) EXCEPT !.lastIp = u.wifi.ip, !.lastAdvertMs = now,
                                                 !.fastBurstsLeft = FastBursts - 1]
                   ELSE u
           interval == IF u1.fastBurstsLeft # 0 THEN ADVERT_FAST_MS ELSE ADVERT_SLOW_MS
       IN IF ElapsedMs(now, u1.lastAdvertMs) >= interval
            THEN [sendDiscovery(u1) EXCEPT !.lastAdvertMs = now,
                                           !.fastBurstsLeft = IF @ # 0 THEN @ - 1 ELSE 0]
            ELSE u1)
advertise(u0, now) == Let(u0, LAMBDA u :
  IF ~u.wifi.up THEN u
  ELSE LET u1 == IF u.wifi.ip # u.lastIp
                   THEN [sendDiscovery(u) EXCEPT !.lastIp = u.wifi.ip, !.lastAdvertMs = now,
                                                 !.fastBurstsLeft = FastBursts]
                   ELSE u
           interval == IF u1.fastBurstsLeft # 0 THEN ADVERT_FAST_MS ELSE ADVERT_SLOW_MS
       IN IF ElapsedMs(now, u1.lastAdvertMs) >= interval
            THEN [sendDiscovery(u1) EXCEPT !.lastAdvertMs = now,
                                           !.fastBurstsLeft = IF @ # 0 THEN @ - 1 ELSE 0]
            ELSE u1)

\* processPending(budget_us).  over1 / over2: whether the budget was used up
\* after the reset stage / after the counts stage (micros() - t0 >= budget).
Did(u, what) == [u EXCEPT !.applied = Append(@, what), !.pendOrder = Without(@, what.kind)]
Stage1(u, r, q, nowMs, fx, over1) ==
  IF u.pendDoReset
    THEN [u |-> Did([u EXCEPT !.pendDoReset = FALSE], [kind |-> "reset", quiet |-> q]),
          r |-> resetToDefaults(r, nowMs, fx), stop |-> over1]
    ELSE [u |-> u, r |-> r, stop |-> FALSE]
Stage2(s1, q, over2) ==
  IF ~s1.stop /\ s1.u.pendHasCounts
    THEN [u |-> Did([s1.u EXCEPT !.pendHasCounts = FALSE], [kind |-> "counts", quiet |-> q]),
          r |-> setCounts(s1.r, s1.u.pendCounts), stop |-> over2]
    ELSE s1
Stage3(s2, q, nowMs, fx) ==
  IF ~s2.stop /\ s2.u.pendHasCfg
    THEN [u |-> Did([s2.u EXCEPT !.pendHasCfg = FALSE],
                    [kind |-> "cfg", quiet |-> q, save |-> s2.u.pendIsSave,
                     json |-> s2.u.pendJson]),
          r |-> IF s2.u.pendIsSave
                  THEN applyJsonSave(s2.r, s2.u.pendJson, nowMs, fx)
                  ELSE applyJsonPreview(s2.r, s2.u.pendJson, nowMs, fx)]
    ELSE [u |-> s2.u, r |-> s2.r]
processPending(u0, r0, nowUs, nowMs, fx, over1, over2) ==
  Let(u0, LAMBDA u : Let(r0, LAMBDA r :
    IF u.pendHasRaw /\ ~quietActive(u, nowUs)
      THEN Let(handleJsonPacket([u EXCEPT !.pendHasRaw = FALSE], r, u.pendRawBuf.doc, TRUE),
               LAMBDA h : [u |-> [h.u EXCEPT !.applied = Append(@, [kind |-> "raw",
                                                                    quiet |-> FALSE])],
                           r |-> h.r])
      ELSE Let(quietActive(u, nowUs), LAMBDA q :
             Let(Stage1(u, r, q, nowMs, fx, over1), LAMBDA s1 :
               Let(Stage2(s1, q, over2), LAMBDA s2 : Stage3(s2, q, nowMs, fx))))))

VARIABLES
  CFG, inPreview, segs, strips, neoB, lastAppliedBrightness,
  bootFadeActive, bootFadeStartMs, bootFadeTarget, nvs,
  seq, lastJs, stepStart, idx, lastIdx, msPrev,
  gPSK, gQuietUntilUs, pendHasCfg, pendIsSave, pendJson,
  pendHasCounts, pendCounts, pendDoReset, pendHasRaw, pendRawBuf,
  lastAdvertMs, fastBurstsLeft, lastIp, wifi, smb, wm,
  nowMs, nowUs, pc, web,
  tx, out, applied, pendOrder, hist

rgbVars == << CFG, inPreview, segs, strips, neoB, lastAppliedBrightness,
              bootFadeActive, bootFadeStartMs, bootFadeTarget, nvs,
              seq, lastJs, stepStart, idx, lastIdx, web, tx >>
udpVars == << gPSK, gQuietUntilUs, pendHasCfg, pendIsSave, pendJson,
              pendHasCounts, pendCounts, pendDoReset, pendHasRaw, pendRawBuf,
              lastAdvertMs, fastBurstsLeft, lastIp, wifi, smb, wm,
              out, applied, pendOrder, hist >>
vars == << rgbVars, udpVars, msPrev, nowMs, nowUs, pc >>

\* The RGBCtrl / RGBCtrlUDP statics as records, with the per-step logs empty.
\* hist is the bookkeeping of the quiet-window scenarios: whether a window was
\* opened, how many previews it deferred, the payload of the last of them,
\* the number of config applies made since, how many microseconds of
\* quiet the calls of enterSmbusQuietUs made so far still ask for, and for
\* the announcements the time since the last one, how many were sent since
\* the cadence was armed and the address the last pass saw.
R == [CFG |-> CFG, inPreview |-> inPreview, segs |-> segs, strips |-> strips,
      neoB |-> neoB, lastAppliedBrightness |-> lastAppliedBrightness,
      bootFadeActive |-> bootFadeActive, bootFadeStartMs |-> bootFadeStartMs,
      bootFadeTarget |-> bootFadeTarget, nvs |-> nvs,
      seq |-> seq, lastJs |-> lastJs, stepStart |-> stepStart, idx |-> idx,
      lastIdx |-> lastIdx, web |-> web, tx |-> << >>]
U == [gPSK |-> gPSK, gQuietUntilUs |-> gQuietUntilUs, pendHasCfg |-> pendHasCfg,
      pendIsSave |-> pendIsSave, pendJson |-> pendJson,
      pendHasCounts |-> pendHasCounts, pendCounts |-> pendCounts,
      pendDoReset |-> pendDoReset, pendHasRaw |-> pendHasRaw,
      pendRawBuf |-> pendRawBuf,
      lastAdvertMs |-> lastAdvertMs, fastBurstsLeft |-> fastBurstsLeft,
      lastIp |-> lastIp, wifi |-> wifi, smb |-> [smb EXCEPT !.bus = << >>, !.ran = FALSE],
      wm |-> [wm EXCEPT !.begun = FALSE],
      out |-> << >>, applied |-> << >>,
      pendOrder |-> pendOrder, hist |-> hist]
SetR(r0) == \E r \in {r0} :
  /\ CFG' = r.CFG /\ inPreview' = r.inPreview /\ segs' = r.segs
  /\ strips' = r.strips /\ neoB' = r.neoB
  /\ lastAppliedBrightness' = r.lastAppliedBrightness
  /\ bootFadeActive' = r.bootFadeActive /\ bootFadeStartMs' = r.bootFadeStartMs
  /\ bootFadeTarget' = r.bootFadeTarget /\ nvs' = r.nvs
  /\ seq' = r.seq /\ lastJs' = r.lastJs /\ stepStart' = r.stepStart
  /\ idx' = r.idx /\ lastIdx' = r.lastIdx /\ web' = r.web /\ tx' = r.tx
IsR(r0) == \E r \in {r0} :
  /\ CFG = r.CFG /\ inPreview = r.inPreview /\ segs = r.segs
  /\ strips = r.strips /\ neoB = r.neoB
  /\ lastAppliedBrightness = r.lastAppliedBrightness
  /\ bootFadeActive = r.bootFadeActive /\ bootFadeStartMs = r.bootFadeStartMs
  /\ bootFadeTarget = r.bootFadeTarget /\ nvs = r.nvs
  /\ seq = r.seq /\ lastJs = r.lastJs /\ stepStart = r.stepStart
  /\ idx = r.idx /\ lastIdx = r.lastIdx /\ web = r.web /\ tx = r.tx
SetU(u0) == \E u \in {u0} :
  /\ gPSK' = u.gPSK /\ gQuietUntilUs' = u.gQuietUntilUs
  /\ pendHasCfg' = u.pendHasCfg /\ pendIsSave' = u.pendIsSave
  /\ pendJson' = u.pendJson /\ pendHasCounts' = u.pendHasCounts
  /\ pendCounts' = u.pendCounts /\ pendDoReset' = u.pendDoReset
  /\ pendHasRaw' = u.pendHasRaw /\ pendRawBuf' = u.pendRawBuf
  /\ lastAdvertMs' = u.lastAdvertMs /\ fastBurstsLeft' = u.fastBurstsLeft
  /\ lastIp' = u.lastIp /\ wifi' = u.wifi /\ smb' = u.smb /\ wm' = u.wm
  /\ out' = u.out /\ applied' = u.applied /\ pendOrder' = u.pendOrder
  /\ hist' = u.hist

\* ------------------------------------------------------------ environment
FxColors == {Green}
QuietDurs == {2}
NoPacket == [kind |-> "none"]
TextPkt(s) == [kind |-> "text", text |-> s]
JsonPkt(d) == [kind |-> "json", doc |-> d]
\* a JSON text preceded by white space
PaddedPkt(d) == [kind |-> "json", doc |-> d, pad |-> " "]
PreviewB(b) == JsonPkt([op |-> "preview", cfg |-> [brightness |-> b]])
PreviewOff == JsonPkt([op |-> "preview", cfg |-> [masterOff |-> TRUE]])
SavePkt == JsonPkt([op |-> "save", mode |-> MODE_SOLID, colorA |-> Blue])
ResetPkt == JsonPkt([op |-> "reset"])
CountsPkt == JsonPkt([op |-> "setCounts", c |-> << 1, 0, MAX_PER_CH + 1, MAX_PER_CH >>])
GetPkt == JsonPkt([op |-> "get"])
PacketsCtl == {SavePkt, ResetPkt, GetPkt, CountsPkt}
PacketsBatch == {PreviewOff, PreviewB(10), CountsPkt}
PacketsQuiet == {PreviewB(10), PreviewB(50), PreviewB(200)}
NoHist == [started |-> FALSE, got |-> 0, last |-> -1, applies |-> 0, payload |-> -1,
           owed |-> 0, since |-> 0, n |-> 0, seenIp |-> 0]

\* The RGBsmbus statics after begin(): the time a Type-D beacon was last read,
\* the next poll, the mirrored enable flags, the round-robin step, whether
\* the board was probed; bus lists what the current loop() call did on the
\* bus and whether it ran updateOnceRR; seen and age tell whether a beacon
\* was read since boot and how long ago.
SmbStatics ==
  [lastTypeDSeen |-> 0, nextPoll |-> 0, gEnableCPU |-> TRUE, gEnableFAN |-> TRUE,
   rr_step |-> 0, gBoardDetected |-> FALSE, bus |-> << >>, ran |-> FALSE,
   seen |-> FALSE, age |-> 0]
\* The WiFiMgr statics before begin(); ssid: whether credentials are stored,
\* portal: whether startPortal has run, at: whether begin(), loop() or the
\* clock moves next, gap: the time since the last WiFi.begin, begun: whether
\* the last call made one.
WmStatics ==
  [state |-> "PORTAL", connectAttempts |-> 0, lastAttempt |-> 0, ssid |-> FALSE,
   portal |-> FALSE, at |-> "boot", gap |-> 0, begun |-> FALSE]

\* ----------------------------------------------------------------- steps
\* setup(): RGBCtrl::begin then RGBCtrlUDP::begin(port, psk)
UdpBeginOn(psk, link) ==
  /\ gPSK = psk /\ gQuietUntilUs = 0
  /\ lastAdvertMs = 0 /\ fastBurstsLeft = FastBursts /\ lastIp = link.ip /\ wifi = link
  /\ smb = SmbStatics /\ wm = WmStatics
  /\ pendHasCfg = FALSE /\ pendIsSave = FALSE /\ pendJson = BadJson
  /\ pendHasCounts = FALSE /\ pendCounts = << 0, 0, 0, 0 >>
  /\ pendDoReset = FALSE /\ pendHasRaw = FALSE /\ pendRawBuf = NoPacket
  /\ out = << >> /\ applied = << >> /\ pendOrder = << >>
  /\ hist = [NoHist EXCEPT !.seenIp = link.ip]
UdpBegin(psk) == UdpBeginOn(psk, LinkDown)
Setup(nvs0, psk) ==
  /\ IsR([RgbBegin(nvs0, 0, Green) EXCEPT !.tx = << >>])
  /\ UdpBegin(psk)
  /\ msPrev = 0 /\ nowMs = 0 /\ nowUs = 0 /\ pc = "rgb"

\* Time passes: micros() within the horizon MaxUs, millis() in steps of d
\* between two passes of loop().
MaxUs == 3
TickUs ==
  /\ nowUs < MaxUs
  /\ nowUs' = (nowUs + 1) % UsMod
  /\ SetR(R) /\ SetU(U)
  /\ UNCHANGED << msPrev, nowMs, pc >>
TickMs(d) ==
  /\ pc = "rgb"
  /\ nowMs' = (nowMs + d) % MsMod
  /\ SetR(R) /\ SetU(U)
  /\ UNCHANGED << msPrev, nowUs, pc >>

\* RGBCtrl::loop()
frameMs(speed) == 10 + ((255 - speed) \div 2)
RgbLoopBody(fx, over1, over2) ==
  IF ElapsedMs(nowMs, msPrev) >= frameMs(CFG.speed)
    THEN Let(processPending(U, renderFrame(R, nowMs, fx), nowUs, nowMs, fx, over1, over2),
             LAMBDA p : [u |-> p.u, r |-> p.r, msPrev |-> nowMs])
    ELSE [u |-> U, r |-> R, msPrev |-> msPrev]
RgbLoop ==
  /\ pc = "rgb" /\ pc' = "smbus"
  /\ \E fx \in FxColors, over1 \in BOOLEAN, over2 \in BOOLEAN :
       \E p \in {RgbLoopBody(fx, over1, over2)} :
          msPrev' = p.msPrev /\ SetR(p.r) /\ SetU(p.u)
  /\ UNCHANGED << nowMs, nowUs >>

\* RGBsmbus::loop(), as far as the control plane sees it: a poll may ask
\* for a quiet window.
SmbusLoop ==
  /\ pc = "smbus" /\ pc' = "udp_pp"
  /\ \/ SetU(U)
     \/ \E d \in QuietDurs : SetU(enterSmbusQuietUs(U, nowUs, d))
  /\ SetR(R)
  /\ UNCHANGED << msPrev, nowMs, nowUs >>

\* RGBCtrlUDP::loop(), first half: processPending(1500)
UdpPending ==
  /\ pc = "udp_pp" /\ pc' = "udp_rx"
  /\ \E fx \in FxColors, over1 \in BOOLEAN, over2 \in BOOLEAN :
       \E p \in {processPending(advertise(U, nowMs), R, nowUs, nowMs, fx, over1, over2)} :
          SetR(p.r) /\ SetU(p.u)
  /\ UNCHANGED << msPrev, nowMs, nowUs >>

\* RGBCtrlUDP::loop(), second half: read and dispatch one packet
\* buf[0] == '{', and String(buf) as handlePlain compares it
LeadsWithBrace(pkt) == pkt.kind = "json" /\ ~Has(pkt, "pad")
AsString(pkt) == IF pkt.kind = "text" THEN pkt.text ELSE "(white space and a JSON text)"
\* (UdpRxBody_QuietFirst: the quiet window looked at before the first byte.)
UdpRxBody_QuietFirst(u, r, pkt, now) ==
  IF pkt.kind = "none" THEN [u |-> u, r |-> r]
  ELSE IF quietActive(u, now)
    THEN [u |-> [u EXCEPT !.pendRawBuf = pkt, !.pendHasRaw = TRUE,
                          !.pendOrder = Append(Without(@, "raw"), "raw")],
          r |-> r]
  ELSE IF ~LeadsWithBrace(pkt) THEN [u |-> handlePlain(u, AsString(pkt)), r |-> r]
  ELSE handleJsonPacket(u, r, pkt.doc, FALSE)
\* (UdpRxBody_KeepFirst: a deferral slot that keeps the first packet.)
UdpRxBody_KeepFirst(u, r, pkt, now) ==
  IF pkt.kind = "none" THEN [u |-> u, r |-> r]
  ELSE IF ~LeadsWithBrace(pkt) THEN [u |-> handlePlain(u, AsString(pkt)), r |-> r]
  ELSE IF quietActive(u, now)
    THEN [u |-> IF u.pendHasRaw THEN u
                ELSE [u EXCEPT !.pendRawBuf = pkt, !.pendHasRaw = TRUE,
                               !.pendOrder = Append(Without(@, "raw"), "raw")],
          r |-> r]
  ELSE handleJsonPacket(u, r, pkt.doc, FALSE)
UdpRxBody(u, r, pkt, now) ==
  IF pkt.kind = "none" THEN [u |-> u, r |-> r]
  ELSE IF ~LeadsWithBrace(pkt) THEN [u |-> handlePlain(u, AsString(pkt)), r |-> r]
  ELSE IF quietActive(u, now)
    THEN [u |-> [u EXCEPT !.pendRawBuf = pkt, !.pendHasRaw = TRUE,
                          !.pendOrder = Append(Without(@, "raw"), "raw")],
          r |-> r]
  ELSE handleJsonPacket(u, r, pkt.doc, FALSE)
UdpRx(pkts) ==
  /\ pc = "udp_rx" /\ pc' = "rgb"
  /\ \E pkt \in pkts \cup {NoPacket} :
       \E h \in {UdpRxBody(U, R, pkt, nowUs)} :
          SetU(h.u) /\ SetR(h.r)
  /\ UNCHANGED << msPrev, nowMs, nowUs >>

\* ------------------------------------------------------ the control plane
CoarseMs == MsMod \div 2
Init == Setup(NvsEmpty, "")
Next ==
  \/ TickUs
  \/ TickMs(CoarseMs)
  \/ RgbLoop
  \/ SmbusLoop
  \/ UdpPending
  \/ UdpRx(PacketsCtl)
Spec == Init /\ [][Next]_vars

\* The same loop with counts and previews on the wire.
NextBatch ==
  \/ TickUs
  \/ TickMs(CoarseMs)
  \/ RgbLoop
  \/ SmbusLoop
  \/ UdpPending
  \/ UdpRx(PacketsBatch)
SpecBatch == Init /\ [][NextBatch]_vars

\* ------------------------------------------- properties of the control plane
IsPrefix(a, b) == Len(a) <= Len(b) /\ \A i \in 1 .. Len(a) : a[i] = b[i]
Effects(items) == SelectSeq(items, LAMBDA x : x.kind # "raw")
Kinds(items) == [i \in 1 .. Len(items) |-> items[i].kind]
IsGetReply(m) == "op" \in DOMAIN m /\ m.op = "get" /\ m.ok
HandledRaw(items) == \E i \in 1 .. Len(items) : items[i].kind = "raw"

\* C2: the effects of a client's requests are applied in the order in which
\* the device received the requests: the items a step applies are the oldest
\* pending ones, in order of receipt, a deferred packet counting from the
\* moment it was received.
OrderOfReceiptKept ==
  [][IsPrefix(Kinds(Effects(applied')), pendOrder)]_vars

\* C3: a get is answered only from a configuration that holds every
\* acknowledged save: when a get reply goes out, no acknowledged save is
\* still waiting to be applied.
GetSeesAckedSave ==
  [][(\E i \in 1 .. Len(out') : IsGetReply(out'[i])) => ~(pendHasCfg' /\ pendIsSave')]_vars

\* C4: every frame transmitted while masterOff is true is all (0,0,0),
\* whatever the counts were changed to before.
MasterOffIsDark == \A i \in 1 .. Len(tx) : tx[i].off => tx[i].dark

\* C5: no heavy item (handling a deferred packet, reset, counts apply, config
\* apply) is performed while the quiet window is active.
NoHeavyWorkWhileQuiet == \A i \in 1 .. Len(applied) : ~applied[i].quiet

\* C6: one call of processPending performs at most one heavy item.
OneHeavyItemPerCall == Len(applied) <= 1

CapCount == 2
Bump(n) == Min(n + 1, CapCount)
CfgApplies(items) == SelectSeq(items, LAMBDA x : x.kind = "cfg")
Booked(u0) == Let(u0, LAMBDA u :
  LET a == CfgApplies(u.applied)
  IN IF Len(a) = 0 THEN u
     ELSE [u EXCEPT !.hist.applies = Bump(@), !.hist.payload = Last(a).json.brightness])
CoRgbLoop ==
  /\ pc = "rgb" /\ pc' = "smbus"
  /\ \E fx \in FxColors, over1 \in BOOLEAN, over2 \in BOOLEAN :
       \E p \in {RgbLoopBody(fx, over1, over2)} :
          msPrev' = p.msPrev /\ SetR(p.r) /\ SetU(Booked(p.u))
  /\ UNCHANGED << nowMs, nowUs >>
CoSmbus ==
  /\ pc = "smbus" /\ pc' = "udp_pp"
  /\ \/ SetU(U)
     \/ /\ ~hist.started
        /\ \E d \in QuietDurs :
             /\ nowUs + d <= MaxUs
             /\ SetU([enterSmbusQuietUs(U, nowUs, d) EXCEPT !.hist.started = TRUE])
  /\ SetR(R)
  /\ UNCHANGED << msPrev, nowMs, nowUs >>
CoPending ==
  /\ pc = "udp_pp" /\ pc' = "udp_rx"
  /\ \E fx \in FxColors, over1 \in BOOLEAN, over2 \in BOOLEAN :
       \E p \in {processPending(advertise(U, nowMs), R, nowUs, nowMs, fx, over1, over2)} :
          SetR(p.r) /\ SetU(Booked(p.u))
  /\ UNCHANGED << msPrev, nowMs, nowUs >>
CoRx ==
  /\ pc = "udp_rx" /\ pc' = "rgb"
  /\ \/ SetU(U) /\ SetR(R)
     \/ /\ hist.started /\ quietActive(U, nowUs)
        /\ \E pkt \in PacketsQuiet :
             /\ pkt.doc.cfg.brightness # hist.last
             /\ \E h \in {UdpRxBody(U, R, pkt, nowUs)} :
                   /\ SetU([h.u EXCEPT !.hist.got = Bump(@),
                                       !.hist.last = pkt.doc.cfg.brightness])
                   /\ SetR(h.r)
  /\ UNCHANGED << msPrev, nowMs, nowUs >>
NextCoalesce ==
  \/ TickUs
  \/ TickMs(CoarseMs)
  \/ CoRgbLoop
  \/ CoSmbus
  \/ CoPending
  \/ CoRx
\* Fairness: loop() is called for ever and time passes.
SpecCoalesce ==
  /\ Init /\ [][NextCoalesce]_vars
  /\ WF_vars(TickUs) /\ WF_vars(CoRgbLoop) /\ WF_vars(CoSmbus)
  /\ WF_vars(CoPending) /\ WF_vars(CoRx)

\* C1: previews received while the quiet window is active lead to exactly one
\* config apply, made after the window has closed, and its payload is the one
\* of the last preview received in the window.
WindowOver == hist.started /\ ~quietActive(U, nowUs)
OneApplyOfTheLast ==
  /\ hist.applies <= 1
  /\ hist.applies = 1 => /\ hist.got >= 1 /\ WindowOver
                         /\ hist.payload = hist.last
                         /\ CFG.brightness = hist.last
CoalescedToLastPreview ==
  /\ []OneApplyOfTheLast
  /\ (hist.got >= 1) ~> (hist.applies = 1 /\ ~pendHasRaw /\ ~pendHasCfg)
ThreePreviewsOneApply ==
  /\ hist.got = CapCount /\ hist.last = 200 /\ hist.applies = 1
  /\ CFG.brightness = 200 /\ ~pendHasRaw /\ ~pendHasCfg

\* ------------------------------------------------------------ the web API
\* GET <base>/api/ledconfig
HttpGetConfig(r, u) ==
  Let(applyConfig(loadConfig(r)), LAMBDA r1 :
    [r |-> r1, u |-> reply(u, [http |-> 200, cfg |-> configToJson(r1.CFG, r1.inPreview)])])
\* POST <base>/api/ledpreview
HttpPreview(r, u, body, now, fx) ==
  Let(parseConfig(body, r.CFG), LAMBDA p :
    IF ~p.ok THEN [r |-> r, u |-> reply(u, [http |-> 400])]
    ELSE [r |-> renderFrame(applyConfig([r EXCEPT !.CFG = p.cfg, !.inPreview = TRUE]), now, fx),
          u |-> reply(u, [http |-> 200])])
\* POST <base>/api/ledsave
HttpSave(r, u, body, now, fx) ==
  Let(parseConfig(body, r.CFG), LAMBDA p :
    IF ~p.ok THEN [r |-> r, u |-> reply(u, [http |-> 400])]
    ELSE [r |-> renderFrame(saveConfig(applyConfig([r EXCEPT !.CFG = p.cfg,
                                                             !.inPreview = FALSE])), now, fx),
          u |-> reply(u, [http |-> 200])])
\* POST <base>/api/ledreset
HttpReset(r, u, now, fx) ==
  [r |-> renderFrame(applyConfig([defaults([r EXCEPT !.nvs = NvsEmpty])
                                    EXCEPT !.inPreview = FALSE]), now, fx),
   u |-> reply(u, [http |-> 200])]

\* Request bodies with values outside the ranges, and a playlist whose steps
\* carry overrides.
StepMs == 100
StepRed == [mode |-> MODE_SOLID, duration |-> StepMs, colorA |-> Red]
StepBlue == [mode |-> MODE_SOLID, duration |-> StepMs, colorA |-> Blue]
StepWild == [mode |-> 200, duration |-> 0, width |-> 0, paletteCount |-> 9, colorA |-> Green]
BodyBig == [count |-> << MAX_PER_CH + 50, 0, MAX_PER_CH + 1, MAX_PER_CH >>,
            mode |-> 99, width |-> 300, paletteCount |-> 9]
BodyNeg == [count |-> << -1, 70000 >>, mode |-> -3, width |-> 0, paletteCount |-> 0]
BodyPlay == [mode |-> MODE_CUSTOM, customSeq |-> Playlist(<< StepWild >>)]
Bodies == {BodyBig, BodyNeg, BodyPlay}
CountsWild == << 65535, MAX_PER_CH + 1, 0, 1 >>
StoredWild == [count |-> << MAX_PER_CH + 7, 1, 0, MAX_PER_CH >>, mode |-> 40, width |-> 0,
               paletteCount |-> 200]

WebGet ==
  /\ \E h \in {HttpGetConfig(R, U)} : SetR(h.r) /\ SetU(h.u)
  /\ UNCHANGED << msPrev, nowMs, nowUs, pc >>
WebPreview ==
  /\ \E body \in Bodies, fx \in FxColors :
       \E h \in {HttpPreview(R, U, body, nowMs, fx)} : SetR(h.r) /\ SetU(h.u)
  /\ UNCHANGED << msPrev, nowMs, nowUs, pc >>
WebSave ==
  /\ \E body \in Bodies, fx \in FxColors :
       \E h \in {HttpSave(R, U, body, nowMs, fx)} : SetR(h.r) /\ SetU(h.u)
  /\ UNCHANGED << msPrev, nowMs, nowUs, pc >>
WebReset ==
  /\ \E fx \in FxColors : \E h \in {HttpReset(R, U, nowMs, fx)} : SetR(h.r) /\ SetU(h.u)
  /\ UNCHANGED << msPrev, nowMs, nowUs, pc >>
\* RGBCtrl::setCounts called with any four uint16_t
ApiSetCounts ==
  /\ SetR(setCounts(R, CountsWild)) /\ SetU(U)
  /\ UNCHANGED << msPrev, nowMs, nowUs, pc >>
\* RGBCtrl::loop() on its own: the rest of the main loop is idle
FrameLoop ==
  /\ \E fx \in FxColors, over1 \in BOOLEAN, over2 \in BOOLEAN :
       \E p \in {RgbLoopBody(fx, over1, over2)} :
          msPrev' = p.msPrev /\ SetR(p.r) /\ SetU(p.u)
  /\ UNCHANGED << nowMs, nowUs, pc >>

InitCfg == \E nvs0 \in {NvsEmpty, StoredWild} : Setup(nvs0, "")
NextCfg ==
  \/ TickMs(CoarseMs)
  \/ FrameLoop
  \/ ApiSetCounts
  \/ WebGet
  \/ WebPreview
  \/ WebSave
  \/ WebReset
SpecCfg == InitCfg /\ [][NextCfg]_vars

\* C10: whatever was loaded, previewed, saved, counted, reset or played,
\* every count is in 0..MAX_PER_CH, mode in 0..14, width in 1..255 and
\* paletteCount in 1..4.
RangesKept ==
  /\ \A i \in Channels : CFG.count[i] \in 0 .. MAX_PER_CH
  /\ ringLen(CFG) <= NUM_CH * MAX_PER_CH
  /\ CFG.mode \in 0 .. (MODE_COUNT - 1)
  /\ CFG.width \in 1 .. 255
  /\ CFG.paletteCount \in 1 .. 4
BigSaveClamped ==
  /\ nvs # NvsEmpty /\ ~IsBad(nvs)
  /\ nvs.count = << MAX_PER_CH, 0, MAX_PER_CH, MAX_PER_CH >>
  /\ CFG.count = [i \in Channels |-> IF i = 1 THEN 0 ELSE MAX_PER_CH]
  /\ CFG.mode = MODE_COUNT - 1 /\ CFG.width = 255 /\ CFG.paletteCount = 4
  /\ lastIdx = 0

\* ------------------------------------------------------- playlist playback
\* A device that booted with defaults, finished its boot fade, and at time
\* PlayT0 is given (POST ledsave) a playlist of two Solid steps of StepMs
\* each, red then blue.  From then on loop() runs once every millisecond.
PlayT0 == CoarseMs
MaxPlayMs == 310
PlaySpeeds == {128, 255}
BodyShow(lp, spd) ==
  [mode |-> MODE_CUSTOM, speed |-> spd, customLoop |-> lp,
   customSeq |-> Playlist(<< StepRed, StepBlue >>)]
PlayStart(lp, spd) ==
  Let(renderFrame(RgbBegin(NvsEmpty, 0, Green), PlayT0, Green), LAMBDA r :
    HttpSave(r, [out |-> << >>], BodyShow(lp, spd), PlayT0, Green).r)
InitPlay ==
  /\ \E lp \in BOOLEAN, spd \in PlaySpeeds : IsR([PlayStart(lp, spd) EXCEPT !.tx = << >>])
  /\ UdpBegin("")
  /\ msPrev = PlayT0 /\ nowMs = PlayT0 /\ nowUs = 0 /\ pc = "smbus"
PlayTick ==
  /\ pc = "smbus" /\ pc' = "rgb"
  /\ ElapsedMs(nowMs, PlayT0) < MaxPlayMs
  /\ nowMs' = (nowMs + 1) % MsMod
  /\ SetR(R) /\ SetU(U)
  /\ UNCHANGED << msPrev, nowUs >>
NextPlay ==
  \/ PlayTick
  \/ RgbLoop
SpecPlay == InitPlay /\ [][NextPlay]_vars

\* C8: playing the playlist leaves the configuration record as the user
\* configured it: a pass of RGBCtrl::loop that applies no request does not
\* change CFG.
PlaybackKeepsConfig == [][(RgbLoop /\ applied' = << >>) => CFG' = CFG]_vars

\* C9: t ms after the playlist was started the frame on the strips is the one
\* of step (t / StepMs): modulo the number of steps when customLoop is set,
\* and the last step once the list has run out when it is not.
PlayTime == ElapsedMs(nowMs, PlayT0)
StepAt(t) ==
  IF CFG.customLoop THEN (t \div StepMs) % Len(seq) ELSE Min(t \div StepMs, Len(seq) - 1)
Shows(c) ==
  \A ch \in Channels, px \in Pixels :
    strips[ch][px] = Pack(ScaleByte(CompR(c), neoB), ScaleByte(CompG(c), neoB),
                          ScaleByte(CompB(c), neoB))
PlaylistOnTime == (pc = "smbus") => Shows(seq[StepAt(PlayTime) + 1].colorA)

\* ------------------------------------------------------ the config store
\* The configuration store on its own: the HTTP handlers, the JSON helpers
\* called directly, rendering and cold restarts.
BodyDim == [brightness |-> 0]
BodySeven == [mode |-> 7, speed |-> 200, width |-> 6, colorA |-> Green]
BodiesStore == {BodyDim, BodySeven, BodyPlay, BadJson}
DiscoverPkt == JsonPkt([op |-> "discover"])
PreviewDim == JsonPkt([op |-> "preview", cfg |-> BodyDim])
SaveSeven == JsonPkt([op |-> "save", cfg |-> BodySeven])
PacketsStore == {PreviewDim, SaveSeven, ResetPkt, GetPkt, DiscoverPkt, CountsPkt}

\* The RGBCtrlUDP statics after begin(port, psk).
UdpStatics(psk) ==
  [gPSK |-> psk, gQuietUntilUs |-> 0, pendHasCfg |-> FALSE, pendIsSave |-> FALSE,
   pendJson |-> BadJson, pendHasCounts |-> FALSE, pendCounts |-> << 0, 0, 0, 0 >>,
   pendDoReset |-> FALSE, pendHasRaw |-> FALSE, pendRawBuf |-> NoPacket,
   lastAdvertMs |-> 0, fastBurstsLeft |-> FastBursts, lastIp |-> wifi.ip, wifi |-> wifi,
   smb |-> SmbStatics, wm |-> WmStatics,
   out |-> << >>, applied |-> << >>, pendOrder |-> << >>,
   hist |-> [NoHist EXCEPT !.seenIp = wifi.ip]]
\* Power cycle: every static starts over, NVS keeps its content, setup() runs.
Restart ==
  /\ \E fx \in FxColors : SetR(RgbBegin(nvs, 0, fx))
  /\ SetU(UdpStatics(gPSK))
  /\ msPrev' = 0 /\ nowMs' = 0 /\ nowUs' = 0 /\ pc' = "rgb"
\* A poll of RGBsmbus::loop that asks for no quiet window.
SmbusIdle ==
  /\ pc = "smbus" /\ pc' = "udp_pp"
  /\ SetU(U) /\ SetR(R)
  /\ UNCHANGED << msPrev, nowMs, nowUs >>
\* RGBCtrl::applyJsonPreview / applyJsonSave called directly; out notes the
\* value returned.
ApiPreview ==
  /\ \E json \in BodiesStore, fx \in FxColors :
       /\ SetR(applyJsonPreview(R, json, nowMs, fx))
       /\ SetU([U EXCEPT !.out = << [ret |-> parseConfig(json, CFG).ok] >>])
  /\ UNCHANGED << msPrev, nowMs, nowUs, pc >>
ApiSave ==
  /\ \E json \in BodiesStore, fx \in FxColors :
       /\ SetR(applyJsonSave(R, json, nowMs, fx))
       /\ SetU([U EXCEPT !.out = << [ret |-> parseConfig(json, CFG).ok] >>])
  /\ UNCHANGED << msPrev, nowMs, nowUs, pc >>
StorePreview ==
  /\ \E body \in BodiesStore, fx \in FxColors :
       \E h \in {HttpPreview(R, U, body, nowMs, fx)} : SetR(h.r) /\ SetU(h.u)
  /\ UNCHANGED << msPrev, nowMs, nowUs, pc >>
StoreSave ==
  /\ \E body \in BodiesStore, fx \in FxColors :
       \E h \in {HttpSave(R, U, body, nowMs, fx)} : SetR(h.r) /\ SetU(h.u)
  /\ UNCHANGED << msPrev, nowMs, nowUs, pc >>
NextStore ==
  \/ TickMs(CoarseMs)
  \/ FrameLoop
  \/ WebGet
  \/ StorePreview
  \/ StoreSave
  \/ WebReset
  \/ ApiPreview
  \/ ApiSave
  \/ Restart
SpecStore == Init /\ [][NextStore]_vars

\* The main loop with every UDP op on the wire, next to the HTTP handlers.
WirePreview ==
  /\ \E fx \in FxColors :
       \E h \in {HttpPreview(R, U, BodySeven, nowMs, fx)} : SetR(h.r) /\ SetU(h.u)
  /\ UNCHANGED << msPrev, nowMs, nowUs, pc >>
WireSave ==
  /\ \E fx \in FxColors :
       \E h \in {HttpSave(R, U, BodySeven, nowMs, fx)} : SetR(h.r) /\ SetU(h.u)
  /\ UNCHANGED << msPrev, nowMs, nowUs, pc >>
NextWire ==
  \/ TickMs(CoarseMs)
  \/ RgbLoop
  \/ SmbusIdle
  \/ UdpPending
  \/ UdpRx(PacketsStore)
  \/ WebGet
  \/ WirePreview
  \/ WireSave
  \/ WebReset
SpecWire == Init /\ [][NextWire]_vars

\* ------------------------------------------- properties of the config store
\* C11: the configured brightness is always within 1..255.
BrightnessInRange == CFG.brightness \in 1 .. 255

\* C12: after a cold restart the configuration read back by get equals, on
\* every persisted field, the configuration that the last applied save wrote.
SavedSurvivesRestart ==
  [][(Restart /\ nvs # NvsEmpty) => PersistDoc(CFG') = nvs]_vars

\* C13: a step that applies a reset which was the last request received
\* leaves NVS erased, inPreview false and the defaults in every persisted
\* field.
AppliesReset(items) == \E i \in 1 .. Len(items) : items[i].kind = "reset"
ResetLeavesDefaults ==
  [][(pendOrder # << >> /\ Last(pendOrder) = "reset" /\ AppliesReset(applied'))
       => /\ nvs' = NvsEmpty /\ ~inPreview'
          /\ PersistDoc(CFG') = PersistDoc(AppConfig)]_vars

\* C14: the value stored in NVS changes only in a step that applies a save
\* (UDP save, POST ledsave) or a reset (UDP reset, POST ledreset): applying a
\* preview or counts, answering get or discover, GET ledconfig and rendering
\* leave it as it is.
AppliesSave(items) == \E i \in 1 .. Len(items) : items[i].kind = "cfg" /\ items[i].save
NvsOnlyBySaveOrReset ==
  [][(nvs' # nvs) => \/ AppliesSave(applied') \/ AppliesReset(applied')
                     \/ WireSave \/ WebReset]_vars
PreviewNotStored ==
  /\ \E i \in 1 .. Len(applied) : applied[i].kind = "cfg" /\ ~applied[i].save
  /\ inPreview /\ CFG.brightness = 0
  /\ nvs # NvsEmpty /\ nvs.brightness = 180 /\ nvs.mode = 7

\* C15: answering a read (GET ledconfig, UDP get or discover) leaves the live
\* configuration, inPreview and the ring map unchanged.
AnswersRead(msgs) ==
  \E i \in 1 .. Len(msgs) : "op" \in DOMAIN msgs[i] /\ msgs[i].op \in {"get", "discover"}
ReadsLeaveConfig ==
  [][(WebGet \/ (pc = "udp_rx" /\ AnswersRead(out')))
       => UNCHANGED << CFG, inPreview, segs >>]_vars

\* C16: in every reachable state, a preview or save whose JSON does not parse
\* reports failure (false / HTTP 400) and changes nothing.
BadJsonChangesNothing ==
  \A fx \in FxColors :
    /\ ~parseConfig(BadJson, CFG).ok
    /\ applyJsonPreview(R, BadJson, nowMs, fx) = R
    /\ applyJsonSave(R, BadJson, nowMs, fx) = R
    /\ HttpPreview(R, U, BadJson, nowMs, fx) = [r |-> R, u |-> reply(U, [http |-> 400])]
    /\ HttpSave(R, U, BadJson, nowMs, fx) = [r |-> R, u |-> reply(U, [http |-> 400])]
BadBodyRefused ==
  /\ out = << [http |-> 400] >>
  /\ inPreview /\ CFG.mode = 7 /\ nvs # NvsEmpty /\ nvs.mode = MODE_CUSTOM

\* ------------------------------------------------- a pre-shared key is set
\* The main loop of a device started with or without a PSK; the wire carries
\* every op with a key that is absent, wrong, not a string or right, and the
\* malformed frames.
Psk == "k"
Keyed(doc) == [x \in DOMAIN doc \cup {"key"} |-> IF x = "key" THEN [str |-> Psk] ELSE doc[x]]
CfgSame == [mode |-> MODE_RAINBOW]
CountsSame == << 1, MAX_PER_CH, MAX_PER_CH, MAX_PER_CH >>
BadPkt == JsonPkt(BadJson)
SaveNoKey == JsonPkt([op |-> "save", cfg |-> CfgSame])
PreviewWrongKey == JsonPkt([op |-> "preview", cfg |-> CfgSame, key |-> [str |-> "x"]])
ResetWrongKey == JsonPkt([op |-> "reset", key |-> [str |-> "kk"]])
CountsNumKey == JsonPkt([op |-> "setCounts", c |-> CountsSame, key |-> [num |-> 7]])
GetNoKey == JsonPkt([op |-> "get"])
CountsKeyed == JsonPkt(Keyed([op |-> "setCounts", c |-> CountsSame \o << 9 >>]))
CountsShort == JsonPkt(Keyed([op |-> "setCounts", c |-> << 1, 1, 1 >>]))
CountsNoC == JsonPkt(Keyed([op |-> "setCounts"]))
NoOpPkt == JsonPkt(Keyed([cfg |-> CfgSame]))
BarePkt == JsonPkt([cfg |-> CfgSame])
EmptyOpPkt == JsonPkt(Keyed([op |-> ""]))
UnknownOpPkt == JsonPkt(Keyed([op |-> "blink"]))
PacketsAuth ==
  {BadPkt, SaveNoKey, PreviewWrongKey, ResetWrongKey, CountsNumKey, GetNoKey,
   CountsKeyed, CountsShort, CountsNoC, NoOpPkt, BarePkt, EmptyOpPkt, UnknownOpPkt}
\* Without a PSK the clients send no key, or one that nobody checks.
PacketsOpen == {PreviewWrongKey, ResetWrongKey, GetNoKey}
InitAuth == \E psk \in {"", Psk} : Setup(NvsEmpty, psk)
NextAuth ==
  \/ TickUs
  \/ TickMs(CoarseMs)
  \/ RgbLoop
  \/ SmbusLoop
  \/ UdpPending
  \/ UdpRx(IF gPSK = "" THEN PacketsOpen ELSE PacketsAuth)
SpecAuth == InitAuth /\ [][NextAuth]_vars

\* ---------------------------------------- properties of the frame handler
\* A frame is handled either fresh, by the packet read when no quiet window
\* is active, or deferred, by the processPending call that takes it out of
\* the raw slot.
AtRx == pc = "udp_rx" /\ ~quietActive(U, nowUs)
Fresh(pkt) == UdpRxBody(U, R, pkt, nowUs)
SlotsOf(u) ==
  << u.pendHasCfg, u.pendIsSave, u.pendJson, u.pendHasCounts, u.pendCounts, u.pendDoReset >>
Untouched(h) == SlotsOf(h.u) = SlotsOf(U) /\ h.u.pendHasRaw = pendHasRaw /\ h.r = R
StoreUntouched ==
  UNCHANGED << pendHasCfg, pendIsSave, pendJson, pendHasCounts, pendCounts, pendDoReset,
               CFG, inPreview, segs, nvs >>
BadKeyed(doc) ==
  gPSK # "" /\ (~Has(doc, "key") \/ ~Has(doc.key, "str") \/ doc.key.str # gPSK)
AuthErr == [ok |-> FALSE, op |-> "auth", err |-> "bad key"]
ParseErr == [ok |-> FALSE, op |-> "parse", err |-> "bad json"]
MissingOpErr == [ok |-> FALSE, op |-> "op", err |-> "missing op"]
UnknownOpErr == [ok |-> FALSE, op |-> "op", err |-> "unknown op"]
CountsErr == [ok |-> FALSE, op |-> "setCounts", err |-> "need 4 ints"]
NoErr == [none |-> TRUE]
Among(msg, msgs) == \E i \in 1 .. Len(msgs) : msgs[i] = msg

\* C17: with a PSK set, a parseable frame whose key is absent, not a string
\* or different is answered with the auth error alone and queues nothing,
\* fresh or deferred; a frame that passes (always, without a PSK) gets no
\* auth error.
FreshKeyChecked(pkt) ==
  LET h == Fresh(pkt)
  IN IF BadKeyed(pkt.doc) THEN h.u.out = << AuthErr >> /\ Untouched(h)
     ELSE ~Among(AuthErr, h.u.out)
DeferredKeyChecked ==
  (HandledRaw(applied') /\ ~IsBad(pendRawBuf.doc))
    => IF BadKeyed(pendRawBuf.doc) THEN out' = << AuthErr >> /\ StoreUntouched
       ELSE ~Among(AuthErr, out')
KeyGuardsEveryOp ==
  /\ [](AtRx => \A pkt \in PacketsAuth : ~IsBad(pkt.doc) => FreshKeyChecked(pkt))
  /\ [][DeferredKeyChecked]_vars
DeferredSaveRefused ==
  /\ gPSK = Psk /\ HandledRaw(applied) /\ pendRawBuf = SaveNoKey
  /\ out = << AuthErr >> /\ ~pendHasCfg /\ nvs = NvsEmpty

\* C18: a handled frame gets exactly one reply; an erroneous one gets the
\* first error of: bad json, bad key, missing op, unknown op, and changes
\* neither the configuration nor a pending slot.
Ops == {"discover", "get", "preview", "save", "reset", "setCounts"}
ExpectedErr(doc) ==
  IF IsBad(doc) THEN ParseErr
  ELSE IF BadKeyed(doc) THEN AuthErr
  ELSE IF ~Has(doc, "op") \/ doc.op = "" THEN MissingOpErr
  ELSE IF doc.op \notin Ops THEN UnknownOpErr
  ELSE NoErr
FreshAnswered(pkt) ==
  LET h == Fresh(pkt)
      e == ExpectedErr(pkt.doc)
  IN /\ Len(h.u.out) = 1
     /\ e # NoErr => (h.u.out = << e >> /\ Untouched(h))
DeferredAnswered ==
  HandledRaw(applied')
    => /\ Len(out') = 1
       /\ ExpectedErr(pendRawBuf.doc) # NoErr
            => (out' = << ExpectedErr(pendRawBuf.doc) >> /\ StoreUntouched)
ErrorsInOrder ==
  /\ [](AtRx => \A pkt \in PacketsAuth : FreshAnswered(pkt))
  /\ [][DeferredAnswered]_vars
BareFrameGetsAuth ==
  /\ gPSK = Psk /\ HandledRaw(applied) /\ pendRawBuf = BarePkt
  /\ out = << AuthErr >>

\* C19: a setCounts that passes the key check with c missing or shorter than
\* four is answered with "need 4 ints" and changes nothing; with four or more
\* elements the first four are queued and the reply is ok.
IsCountsOp(doc) ==
  ~IsBad(doc) /\ ~BadKeyed(doc) /\ Has(doc, "op") /\ doc.op = "setCounts"
TooShort(doc) == ~Has(doc, "c") \/ Len(doc.c) < 4
FreshCountsChecked(pkt) ==
  LET h == Fresh(pkt)
  IN IF TooShort(pkt.doc) THEN h.u.out = << CountsErr >> /\ Untouched(h)
     ELSE /\ h.u.out = << [ok |-> TRUE, op |-> "setCounts"] >>
          /\ h.u.pendHasCounts /\ h.u.pendCounts = SubSeq(pkt.doc.c, 1, 4)
          /\ h.r = R
DeferredCountsChecked ==
  (HandledRaw(applied') /\ IsCountsOp(pendRawBuf.doc))
    => IF TooShort(pendRawBuf.doc) THEN out' = << CountsErr >> /\ StoreUntouched
       ELSE /\ out' = << [ok |-> TRUE, op |-> "setCounts"] >>
            /\ pendHasCounts' /\ pendCounts' = SubSeq(pendRawBuf.doc.c, 1, 4)
            /\ UNCHANGED << CFG, inPreview, segs, nvs >>
ShortCountsRefused ==
  /\ [](AtRx => \A pkt \in PacketsAuth : IsCountsOp(pkt.doc) => FreshCountsChecked(pkt))
  /\ [][DeferredCountsChecked]_vars
ShortAfterQueued ==
  /\ HandledRaw(applied) /\ pendRawBuf = CountsShort /\ out = << CountsErr >>
  /\ pendHasCounts /\ pendCounts = CountsSame

\* ------------------------------------- other traffic during the quiet window
\* The scenario of one quiet window of previews, with a get among them: after
\* the window nothing more is received, so no later preview, save or reset
\* replaces the last preview.
LostRx ==
  /\ pc = "udp_rx" /\ pc' = "rgb"
  /\ \/ SetU(U) /\ SetR(R)
     \/ /\ hist.started /\ quietActive(U, nowUs)
        /\ \/ \E pkt \in PacketsQuiet :
                /\ pkt.doc.cfg.brightness # hist.last
                /\ \E h \in {UdpRxBody(U, R, pkt, nowUs)} :
                      /\ SetU([h.u EXCEPT !.hist.got = Bump(@),
                                          !.hist.last = pkt.doc.cfg.brightness])
                      /\ SetR(h.r)
           \/ \E h \in {UdpRxBody(U, R, GetPkt, nowUs)} : SetU(h.u) /\ SetR(h.r)
  /\ UNCHANGED << msPrev, nowMs, nowUs >>
NextLost ==
  \/ TickUs
  \/ TickMs(CoarseMs)
  \/ CoRgbLoop
  \/ CoSmbus
  \/ CoPending
  \/ LostRx
SpecLost ==
  /\ Init /\ [][NextLost]_vars
  /\ WF_vars(TickUs) /\ WF_vars(CoRgbLoop) /\ WF_vars(CoSmbus)
  /\ WF_vars(CoPending) /\ WF_vars(LostRx)

\* C20: once a preview has been received, the last preview received is
\* eventually applied (and rendered), whatever other traffic arrives.
LastPreviewApplied ==
  (hist.got >= 1) ~> (hist.applies >= 1 /\ hist.payload = hist.last
                      /\ CFG.brightness = hist.last /\ inPreview)

\* ------------------------------------------- properties of the serialization
\* A record that differs from the defaults in every field.
OtherBase ==
  [count |-> [i \in Channels |-> IF i = 0 THEN 1 ELSE 0],
   brightness |-> 7, mode |-> 9, speed |-> 3, intensity |-> 5, width |-> 9,
   colorA |-> Blue, colorB |-> Green, colorC |-> Amber, colorD |-> Red,
   paletteCount |-> 3, resumeOnBoot |-> FALSE,
   enableCpu |-> FALSE, enableFan |-> FALSE,
   reverse |-> [i \in Channels |-> ~REVERSE_DEFAULTS[i]],
   masterOff |-> TRUE, customSeq |-> Playlist(<< StepRed >>), customLoop |-> FALSE]
Bases == {AppConfig, OtherBase}
BodyShortRev == [reverse |-> << TRUE >>, count |-> << 1 >>]
BodiesAny == Bodies \cup {BodyDim, BodySeven, BodyShortRev}

MissingIndicesKept ==
  \A body \in BodiesAny :
    LET p == parseConfig(body, CFG).cfg
    IN /\ Has(body, "count") =>
            \A i \in Channels : ElemIsNull(body.count, i) => p.count[i] = CFG.count[i]
       /\ Has(body, "reverse") =>
            \A i \in Channels : ElemIsNull(body.reverse, i) => p.reverse[i] = CFG.reverse[i]
\* (the same for the "reverse" array alone)
MissingReverseKept ==
  \A body \in BodiesAny :
    Has(body, "reverse") =>
      \A i \in Channels :
        ElemIsNull(body.reverse, i) => parseConfig(body, CFG).cfg.reverse[i] = CFG.reverse[i]

\* ------------------------------------------------------------ the ring mapper
\* The counts (as stored before the boot) and the reverse flags (previews
\* that flip one flag, rendered by an effect that is at black) take every
\* value; a probe writes one logical index of the ring on dark strips.
CountTuples ==
  {<< a, b, c, d >> : a \in 0 .. MAX_PER_CH, b \in 0 .. MAX_PER_CH,
                      c \in 0 .. MAX_PER_CH, d \in 0 .. MAX_PER_CH}
Flipped(rv, i) == [k \in 1 .. NUM_CH |-> IF k = i + 1 THEN ~rv[k - 1] ELSE rv[k - 1]]
BodyToggle(rv, i) == [reverse |-> Flipped(rv, i)]
ProbeMax == (NUM_CH * MAX_PER_CH) + 1
RingToggle ==
  /\ \E i \in Channels, fx \in {Black} :
       \E h \in {HttpPreview(R, U, BodyToggle(CFG.reverse, i), nowMs, fx)} :
          SetR(h.r) /\ SetU(h.u)
  /\ UNCHANGED << msPrev, nowMs, nowUs, pc >>
RingWrite ==
  /\ AllDark(strips)
  /\ \E i \in 0 .. ProbeMax : SetR(setRing(R, i, Red))
  /\ SetU(U)
  /\ UNCHANGED << msPrev, nowMs, nowUs, pc >>
InitRing == \E c \in CountTuples : Setup([count |-> c], "")
NextRing ==
  \/ RingToggle
  \/ RingWrite
SpecRing == InitRing /\ [][NextRing]_vars

\* The pixels that setRing(idx) writes, read off dark full-scale strips.
Lit(strp) == {cp \in Channels \X Pixels : strp[cp[1]][cp[2]] # Black}
Target(r, i) ==
  Lit(setRing([CFG |-> r.CFG, segs |-> r.segs, strips |-> ClearStrips, neoB |-> 0], i, Red).strips)
Allocated(cfg) == {cp \in Channels \X Pixels : cp[2] < cfg.count[cp[1]]}
RingIdx(cfg) == 0 .. (ringLen(cfg) - 1)

\* C26: the logical indices 0..L-1 map one-to-one onto the pixels (c, p)
\* with p < count[c], and a write at an index >= L changes no pixel.
RingIsBijection ==
  /\ \A i \in RingIdx(CFG) : Cardinality(Target(R, i)) = 1 /\ Target(R, i) \subseteq Allocated(CFG)
  /\ Cardinality({Target(R, i) : i \in RingIdx(CFG)}) = ringLen(CFG)
  /\ UNION {Target(R, i) : i \in RingIdx(CFG)} = Allocated(CFG)
  /\ \A i \in ringLen(CFG) .. ProbeMax : setRing(R, i, Red) = R
ProbeLandsReversed ==
  /\ CFG.count = [i \in Channels |-> IF i = 1 THEN 0 ELSE IF i = 2 THEN 1 ELSE MAX_PER_CH]
  /\ CFG.reverse = [i \in Channels |-> i = 3]
  /\ Lit(strips) = {<< 3, MAX_PER_CH - 1 >>}

\* C27: flipping reverse[i] twice gives the mapping back; flipping it once
\* sends remainder r of channel i to count[i]-1-r, leaves the pixels of the
\* other channels where they were and keeps the channels in ring order.
\* (ToggleOf: the preview handler up to, not including, its render)
ToggleOf(r, i) ==
  applyConfig([r EXCEPT !.CFG = parseConfig(BodyToggle(r.CFG.reverse, i), r.CFG).cfg,
                        !.inPreview = TRUE])
MapOf(r) == [k \in RingIdx(r.CFG) |-> Target(r, k)]
FlipPixel(cfg, i, cp) == IF cp[1] = i THEN << i, cfg.count[i] - 1 - cp[2] >> ELSE cp
ReverseFlipsOneChannel ==
  \A i \in Channels :
    LET once == ToggleOf(R, i)
        twice == ToggleOf(once, i)
    IN /\ once.CFG.reverse[i] = ~CFG.reverse[i]
       /\ MapOf(twice) = MapOf(R)
       /\ \A k \in RingIdx(CFG) :
             Target(once, k) = {FlipPixel(CFG, i, cp) : cp \in Target(R, k)}
       /\ \A k \in RingIdx(CFG) \ {0} :
             \A a \in Target(once, k - 1), b \in Target(once, k) : a[1] <= b[1]
ToggledChannelFlipped ==
  /\ inPreview /\ CFG.reverse[1] /\ CFG.count = [i \in Channels |-> MAX_PER_CH]
  /\ Lit(strips) = {<< 1, MAX_PER_CH - 1 >>}

\* ------------------------------------------- properties of transmitted frames
\* C28: in every transmitted frame the pixels at or beyond the count of
\* their channel are (0,0,0), and a ring of length 0 transmits a dark frame.
UnallocatedDark ==
  \A i \in 1 .. Len(tx) : tx[i].stray = {}

\* ------------------------------------------------------ the quiet window
\* The main loop with a free-running micros(): the bus driver asks for quiet
\* windows of every length below half the counter range.
QuietAll == 1 .. ((UsMod \div 2) - 1)
WrapTick ==
  /\ nowUs' = (nowUs + 1) % UsMod
  /\ SetU([U EXCEPT !.hist.owed = IF @ > 0 THEN @ - 1 ELSE 0])
  /\ SetR(R)
  /\ UNCHANGED << msPrev, nowMs, pc >>
QuietSmbus ==
  /\ pc = "smbus" /\ pc' = "udp_pp"
  /\ \/ SetU(U)
     \/ \E d \in QuietAll :
          SetU([enterSmbusQuietUs(U, nowUs, d)
                  EXCEPT !.hist.owed = IF d > @ THEN d ELSE @])
  /\ SetR(R)
  /\ UNCHANGED << msPrev, nowMs, nowUs >>
NextQuiet ==
  \/ WrapTick
  \/ RgbLoop
  \/ QuietSmbus
  \/ UdpPending
  \/ UdpRx({GetPkt})
SpecQuiet == Init /\ [][NextQuiet]_vars

\* C25: as long as a call still asks for quiet the window is active, and
\* the deadline of an active window only moves later.
QuietHonoured ==
  /\ [](hist.owed > 0 => quietActive(U, nowUs))
  /\ [][(quietActive(U, nowUs) /\ gQuietUntilUs' # gQuietUntilUs)
          => SignedDiffUs(gQuietUntilUs', gQuietUntilUs) > 0]_vars
WindowAcrossWrap ==
  /\ hist.owed = 2 /\ quietActive(U, nowUs)
  /\ gQuietUntilUs < nowUs /\ pendHasRaw

\* ------------------------------------------------------ text on the wire
\* Discovery requests, other text and a get preceded by white space, next to
\* a get and a preview, with and without a PSK.
DiscPkt == TextPkt("RGBDISC?")
DiscNlPkt == TextPkt("RGBDISC?\n")
HelloPkt == TextPkt("hello")
GetKeyed == JsonPkt(Keyed([op |-> "get"]))
GetPadded == PaddedPkt(Keyed([op |-> "get"]))
PreviewKeyed == JsonPkt(Keyed([op |-> "preview", cfg |-> [brightness |-> 10]]))
TextPackets == {DiscPkt, DiscNlPkt, HelloPkt}
PacketsText == TextPackets \cup {GetKeyed, GetPadded, PreviewKeyed}
NextText ==
  \/ TickUs
  \/ TickMs(CoarseMs)
  \/ RgbLoop
  \/ SmbusLoop
  \/ UdpPending
  \/ UdpRx(PacketsText)
SpecText == InitAuth /\ [][NextText]_vars

\* C22: whenever a packet is read, a discovery request gets "RGBDISC! " and
\* the discover JSON as the only reply of that pass, any other text gets the
\* unknown-text error, and neither touches the configuration or a slot.
DiscoverReply == [text |-> "RGBDISC! ", json |-> buildDiscoverJson]
UnknownTextErr == [ok |-> FALSE, op |-> "raw", err |-> "unknown text"]
TextReply(pkt) == IF pkt \in {DiscPkt, DiscNlPkt} THEN DiscoverReply ELSE UnknownTextErr
TextAnsweredAtOnce ==
  pc = "udp_rx" =>
    \A pkt \in TextPackets :
      UdpRxBody(U, R, pkt, nowUs) = [u |-> [U EXCEPT !.out = << TextReply(pkt) >>], r |-> R]
DiscoveryDuringQuiet ==
  /\ pc = "rgb" /\ out = << DiscoverReply >> /\ quietActive(U, nowUs)
  /\ pendHasRaw /\ pendRawBuf = PreviewKeyed /\ gPSK = Psk

\* C23: a JSON text preceded by white space is handled as the same text
\* without it.
PaddedJsonIsJson ==
  pc = "udp_rx" => UdpRxBody(U, R, GetPadded, nowUs) = UdpRxBody(U, R, GetKeyed, nowUs)

\* ------------------------------------------- the web task beside the loop
\* The handlers of attachWeb run on the task of the async web server while
\* loop() runs on its own task; nothing serializes the two.  A handler is
\* taken in the steps between which the main loop may run: the record is
\* stored, the ring map and brightness are applied, the frame is rendered.
BodyFew == [count |-> << 1, 0, MAX_PER_CH, MAX_PER_CH >>,
            reverse |-> << FALSE, TRUE, TRUE, FALSE >>]
WebKinds == {"preview", "save", "reset", "get"}
WebStored(r, kind) ==
  IF kind = "reset" THEN [defaults([r EXCEPT !.nvs = NvsEmpty]) EXCEPT !.inPreview = FALSE]
  ELSE IF kind = "get" THEN loadConfig(r)
  ELSE [r EXCEPT !.CFG = parseConfig(BodyFew, r.CFG).cfg, !.inPreview = (kind = "preview")]
WebTaskStore ==
  /\ web = WebIdle
  /\ \E kind \in WebKinds : SetR([WebStored(R, kind) EXCEPT !.web = [at |-> "stored", kind |-> kind]])
  /\ SetU(U)
  /\ UNCHANGED << msPrev, nowMs, nowUs, pc >>
WebTaskApply ==
  /\ web # WebIdle /\ web.at = "stored"
  /\ SetR([(IF web.kind = "save" THEN saveConfig(applyConfig(R)) ELSE applyConfig(R))
             EXCEPT !.web.at = "applied"])
  /\ SetU(U)
  /\ UNCHANGED << msPrev, nowMs, nowUs, pc >>
WebTaskRender ==
  /\ web # WebIdle /\ web.at = "applied"
  /\ \E fx \in FxColors :
       SetR([(IF web.kind = "get" THEN R ELSE renderFrame(R, nowMs, fx)) EXCEPT !.web = WebIdle])
  /\ SetU(reply(U, IF web.kind = "get"
                     THEN [http |-> 200, cfg |-> configToJson(CFG, inPreview)]
                     ELSE [http |-> 200]))
  /\ UNCHANGED << msPrev, nowMs, nowUs, pc >>
NextWeb ==
  \/ TickMs(CoarseMs)
  \/ RgbLoop
  \/ SmbusIdle
  \/ UdpPending
  \/ UdpRx({GetPkt, SaveSeven})
  \/ WebTaskStore
  \/ WebTaskApply
  \/ WebTaskRender
SpecWeb == Init /\ [][NextWeb]_vars

\* C24: whenever the main loop renders a frame or answers a get, the ring
\* map it reads is the one built from the counts it reads.
MapMatches == \A s \in Channels : segs[s] = [ch |-> s, count |-> CFG.count[s]]
LoopRenders == pc = "rgb" /\ pc' = "smbus" /\ tx' # << >>
LoopAnswersGet == pc = "udp_rx" /\ pc' = "rgb" /\ out' # << >>
NoTornRead == [][(LoopRenders \/ LoopAnswersGet) => MapMatches]_vars

\* ------------------------------------------------------ presence on the air
\* The device joined a network before setup(); time passes in steps of
\* AdvStepMs up to MaxAdvMs, the address changes and the link drops and
\* comes back at any time, and loop() passes as often or as rarely as it may.
AdvStepMs == 1000
MaxAdvMs == 26000
LinkUp(ip) == [up |-> TRUE, ip |-> ip]
Addresses == {1, 2}
Bcasts(msgs) == SelectSeq(msgs, LAMBDA m : Has(m, "bcast"))
Announcement(ip) ==
  << [bcast |-> TRUE, json |-> buildDiscoverJson, ip |-> ip],
     [bcast |-> TRUE, text |-> "RGBDISC! ", json |-> buildDiscoverJson, ip |-> ip] >>
Noted(h, link, msgs) ==
  IF ~link.up THEN h
  ELSE IF msgs = << >> THEN [h EXCEPT !.seenIp = link.ip]
  ELSE [h EXCEPT !.since = 0, !.seenIp = link.ip,
                 !.n = IF link.ip # h.seenIp THEN 0 ELSE Min(h.n + 1, 4)]
InitAdvert ==
  /\ IsR([RgbBegin(NvsEmpty, 0, Green) EXCEPT !.tx = << >>])
  /\ UdpBeginOn("", LinkUp(1))
  /\ msPrev = 0 /\ nowMs = 0 /\ nowUs = 0 /\ pc = "rgb"
AdvTick ==
  /\ pc = "rgb" /\ nowMs + AdvStepMs <= MaxAdvMs
  /\ nowMs' = (nowMs + AdvStepMs) % MsMod
  /\ SetU([U EXCEPT !.hist.since = @ + AdvStepMs]) /\ SetR(R)
  /\ UNCHANGED << msPrev, nowUs, pc >>
LinkChange ==
  /\ pc = "rgb"
  /\ \E link \in {LinkDown} \cup {LinkUp(ip) : ip \in Addresses} :
       link # wifi /\ SetU([U EXCEPT !.wifi = link])
  /\ SetR(R)
  /\ UNCHANGED << msPrev, nowMs, nowUs, pc >>
AdvPending ==
  /\ pc = "udp_pp" /\ pc' = "udp_rx"
  /\ \E fx \in FxColors, over1 \in BOOLEAN, over2 \in BOOLEAN :
       \E p \in {processPending(advertise(U, nowMs), R, nowUs, nowMs, fx, over1, over2)} :
          SetR(p.r) /\ SetU([p.u EXCEPT !.hist = Noted(hist, wifi, Bcasts(p.u.out))])
  /\ UNCHANGED << msPrev, nowMs, nowUs >>
NextAdvert ==
  \/ AdvTick
  \/ LinkChange
  \/ RgbLoop
  \/ SmbusIdle
  \/ AdvPending
  \/ UdpRx({GetPkt})
SpecAdvert == InitAdvert /\ [][NextAdvert]_vars

\* C21: a pass of loop() with the link up announces (the discover JSON and
\* its text variant, broadcast) exactly when the address differs from the
\* last one seen, or 3 s have passed since the last announcement and fewer
\* than 3 were sent since the cadence was armed, or 15 s have passed; with
\* the link down it announces nothing.
AdvertCadence ==
  [][(pc = "udp_pp" /\ pc' = "udp_rx")
       => LET changed == wifi.ip # hist.seenIp
              due == hist.since >= (IF hist.n < 3 THEN 3000 ELSE 15000)
          IN Bcasts(out') = IF wifi.up /\ (changed \/ due) THEN Announcement(wifi.ip)
                            ELSE << >>]_vars
SlowAfterRearm ==
  /\ pc = "udp_rx" /\ out = Announcement(2) /\ hist.n = 4 /\ nowMs = MaxAdvMs - AdvStepMs
  /\ fastBurstsLeft = 0 /\ lastIp = 2

\* ------------------------------------------------------------ the boot fade
\* The first seconds after begin(): frames every FadeStepMs or less often,
\* previews that change the brightness, reloads and resets in between.
FadeStepMs == 800
MaxFadeMs == 4800
BodyFull == [brightness |-> 255]
FadeTick ==
  /\ nowMs + FadeStepMs <= MaxFadeMs
  /\ nowMs' = (nowMs + FadeStepMs) % MsMod
  /\ SetR(R) /\ SetU(U)
  /\ UNCHANGED << msPrev, nowUs, pc >>
FadePreview ==
  /\ \E body \in {BodyDim, BodyFull}, fx \in FxColors :
       \E h \in {HttpPreview(R, U, body, nowMs, fx)} : SetR(h.r) /\ SetU(h.u)
  /\ UNCHANGED << msPrev, nowMs, nowUs, pc >>
NextFade ==
  \/ FadeTick
  \/ FrameLoop
  \/ FadePreview
  \/ WebGet
  \/ WebReset
SpecFade == Init /\ [][NextFade]_vars

\* C31: a frame transmitted t ms after begin() goes out at brightness
\* floor(target*t/3200), raised to 1 when target > 0, for t < 3200 and at
\* target from then on, target being CFG.brightness at that moment; the fade
\* is over after the first frame with t >= 3200 and does not start again.
RampAt(target, t) ==
  IF t >= 3200 THEN target
  ELSE IF target > 0 /\ (target * t) \div 3200 = 0 THEN 1
  ELSE (target * t) \div 3200
Speeds == 0 .. 255
OneFramePerCall ==
  /\ pc = "smbus" => Len(tx) <= 1
  /\ (pc = "smbus" /\ tx # << >>) => msPrev = nowMs
  /\ \A sp \in Speeds \ {255} : frameMs(sp + 1) <= frameMs(sp)
  /\ frameMs(0) > frameMs(255)

\* ------------------------------------------------------ entering a step
\* A device past its boot fade whose user saves playlists over HTTP.  Every
\* saved body names its own base colour (green), so the persisted document
\* holds the base configuration; the steps are Solid and StepMs long.
StepBare == [mode |-> MODE_SOLID, duration |-> StepMs]
BodyMix == [mode |-> MODE_CUSTOM, colorA |-> Green, customLoop |-> TRUE,
            customSeq |-> Playlist(<< StepRed, StepBare >>)]
BodySoloRed == [mode |-> MODE_CUSTOM, colorA |-> Green, customSeq |-> Playlist(<< StepRed >>)]
BodySoloBlue == [mode |-> MODE_CUSTOM, colorA |-> Green, customSeq |-> Playlist(<< StepBlue >>)]
BodiesSteps == {BodyMix, BodySoloRed, BodySoloBlue}
MaxStepsMs == 400
InitSteps ==
  /\ IsR([renderFrame(RgbBegin(NvsEmpty, 0, Green), PlayT0, Green) EXCEPT !.tx = << >>])
  /\ UdpBegin("")
  /\ msPrev = PlayT0 /\ nowMs = PlayT0 /\ nowUs = 0 /\ pc = "rgb"
StepsTick ==
  /\ ElapsedMs(nowMs, PlayT0) + StepMs <= MaxStepsMs
  /\ nowMs' = (nowMs + StepMs) % MsMod
  /\ SetR(R) /\ SetU(U)
  /\ UNCHANGED << msPrev, nowUs, pc >>
StepsSave ==
  /\ \E body \in BodiesSteps, fx \in FxColors :
       \E h \in {HttpSave(R, U, body, nowMs, fx)} : SetR(h.r) /\ SetU(h.u)
  /\ UNCHANGED << msPrev, nowMs, nowUs, pc >>
NextSteps ==
  \/ StepsTick
  \/ FrameLoop
  \/ StepsSave
SpecSteps == InitSteps /\ [][NextSteps]_vars

\* The step that a frame transmitted by this transition rendered, and
\* whether the engine entered it with this frame.
Reparsed == lastJs # CFG'.customSeq
StepShown == IF Reparsed THEN parseCustomSteps(CFG'.customSeq)[1] ELSE seq[idx + 1]
PlaylistFrame ==
  /\ Len(tx') = 1 /\ CFG'.mode = MODE_CUSTOM /\ ~CFG'.masterOff
  /\ seq' # << >>
StepEntered == Reparsed \/ idx # lastIdx
ShownAfter(c) ==
  \A ch \in Channels, px \in Pixels :
    strips'[ch][px] = Pack(ScaleByte(CompR(c), neoB'), ScaleByte(CompG(c), neoB'),
                           ScaleByte(CompB(c), neoB'))

\* C33: a frame of a playlist step that names no colorA is drawn in the
\* base configuration's colorA (the one the user saved), not in a colour
\* that an earlier step's override left behind.
OmittedFallsBack ==
  [][(PlaylistFrame /\ ~StepShown.hasA) => (nvs'.colorA = Green /\ ShownAfter(Green))]_vars

\* C34: the first frame of a step that the engine enters (after a step
\* advance or after a new customSeq was supplied) is drawn with that step's
\* overrides in force.
EnteredStepOverridden ==
  [][(PlaylistFrame /\ StepEntered) =>
       /\ CFG' = applyStepOverrides(CFG', StepShown)
       /\ StepShown.hasA => ShownAfter(StepShown.colorA)]_vars

\* ------------------------------------------------- frames without the key
\* What a deferred frame is still going to queue: the pending slots as the
\* handling of the raw slot will leave them.
EffRaw(u, r) ==
  IF u.pendHasRaw THEN SlotsOf(handleJsonPacket(u, r, u.pendRawBuf.doc, TRUE).u)
  ELSE SlotsOf(u)
\* C37: with a PSK set, receiving a frame that fails the key check leaves
\* everything that decides the applied changes (the pending slots, the frame
\* waiting in the raw slot, the live configuration and NVS) as it would be
\* had the frame not been received.
BadKeyFramesInert ==
  (pc = "udp_rx" /\ gPSK # "") =>
    \A pkt \in PacketsAuth :
      (~IsBad(pkt.doc) /\ BadKeyed(pkt.doc)) =>
        LET h == Fresh(pkt)
        IN /\ SlotsOf(h.u) = SlotsOf(U) /\ EffRaw(h.u, h.r) = EffRaw(U, R)
           /\ h.r.CFG = CFG /\ h.r.inPreview = inPreview /\ h.r.nvs = nvs

\* ------------------------------------------------------ acknowledged saves
\* The main loop with saves and previews on the wire and SMBus polls that
\* ask for quiet.
PacketsSaves == {SaveSeven, SavePkt, PreviewDim}
NextSaves ==
  \/ TickUs
  \/ TickMs(CoarseMs)
  \/ RgbLoop
  \/ SmbusLoop
  \/ UdpPending
  \/ UdpRx(PacketsSaves)
SpecSaves == Init /\ [][NextSaves]_vars

\* C35: a save that was queued (and answered ok) stays queued with its own
\* payload until the step that applies it as a save; no packet received in
\* between replaces it or turns it into a preview.
AppliedAsSave(items, json) ==
  \E i \in 1 .. Len(items) : items[i].kind = "cfg" /\ items[i].save /\ items[i].json = json
AckedSaveKept ==
  [][(pendHasCfg /\ pendIsSave) =>
       \/ AppliedAsSave(applied', pendJson)
       \/ pendHasCfg' /\ pendIsSave' /\ pendJson' = pendJson]_vars

\* C36: when no call of enterSmbusQuietUs still asks for quiet (none was made
\* within the last dur_us, or none since boot) the window is not active, at
\* every reading of micros().
NoStaleQuiet == hist.owed = 0 => ~quietActive(U, nowUs)

\* ------------------------------------------------- live against persisted
\* The record a cold restart would load: begin() overlays NVS on the
\* defaults and applies it.
ColdLoaded == applyConfig(loadConfig([R EXCEPT !.CFG = AppConfig])).CFG
\* C38: whenever inPreview is false the live record equals, on every
\* persisted field, the record a cold restart would load.
LiveIsPersisted == ~inPreview => PersistDoc(CFG) = PersistDoc(ColdLoaded)

\* ------------------------------------------------------------ the SMBus poller
RGBSMBUS_POLL_MS == 4000
RGBSMBUS_JITTER_MAX_MS == 250
RGBSMBUS_TYPE_D_TTL_MS == 15000
\* The guard windows of a probe, a read attempt and a poll, in units of the
\* modelled micros().
SmbGuards == [probe |-> 1, attempt |-> 2, poll |-> 3]
OnBus(p, what) == [p EXCEPT !.s.bus = Append(@, what)]
Quieted(p, us, dur) == OnBus([p EXCEPT !.u = enterSmbusQuietUs(p.u, us, dur)], "quiet")

pollTypeD(s, now, beacon) ==
  IF beacon THEN [s EXCEPT !.lastTypeDSeen = now, !.seen = TRUE, !.age = 0] ELSE s
typeDPresent(s, now) == ElapsedMs(now, s.lastTypeDSeen) < RGBSMBUS_TYPE_D_TTL_MS
applyEnableFlags(s, wantCPU, wantFAN) == [s EXCEPT !.gEnableCPU = wantCPU, !.gEnableFAN = wantFAN]
\* readByteSTOP: the guard window, then the transaction when the lines are idle
readByteSTOP(p, us, idle) ==
  Let(Quieted(p, us, SmbGuards.attempt), LAMBDA q : IF idle THEN OnBus(q, "read") ELSE q)
detectBoardLazy(p, us, now, idle) ==
  IF p.s.gBoardDetected \/ typeDPresent(p.s, now) THEN p
  ELSE Let(Quieted(p, us, SmbGuards.probe), LAMBDA q :
         IF ~idle THEN q
         ELSE [readByteSTOP(OnBus(q, "probe"), us, idle) EXCEPT !.s.gBoardDetected = TRUE])
\* The poll itself, after the two guards.
PollBus(p, us, now, idle) ==
  Let(Quieted(detectBoardLazy(p, us, now, idle), us, SmbGuards.poll), LAMBDA q :
    IF ~idle THEN q
    ELSE LET step == q.s.rr_step % 4
             q1 == [q EXCEPT !.s.rr_step = (@ + 1) % 256]
         IN IF (step = 0 /\ q1.s.gEnableCPU) \/ (step = 1 /\ q1.s.gEnableFAN)
              THEN readByteSTOP(q1, us, idle) ELSE q1)
\* (updateOnceRR_NoFlagGuard: a poll that does not look at the enable flags.)
updateOnceRR_NoFlagGuard(s0, u, cfg, us, now, idle) ==
  Let([s |-> [applyEnableFlags(s0, cfg.enableCpu, cfg.enableFan) EXCEPT !.ran = TRUE], u |-> u],
      LAMBDA p :
        IF typeDPresent(p.s, now) THEN p
        ELSE PollBus(p, us, now, idle))
updateOnceRR(s0, u, cfg, us, now, idle) ==
  Let([s |-> [applyEnableFlags(s0, cfg.enableCpu, cfg.enableFan) EXCEPT !.ran = TRUE], u |-> u],
      LAMBDA p :
        IF typeDPresent(p.s, now) THEN p
        ELSE IF ~p.s.gEnableCPU /\ ~p.s.gEnableFAN THEN p
        ELSE PollBus(p, us, now, idle))
armNextPoll(s, now, jitter) ==
  [s EXCEPT !.nextPoll = (now + RGBSMBUS_POLL_MS + jitter) % MsMod]
\* RGBsmbus::loop()
smbusLoop(s0, u, cfg, us, now, beacon, idle, jitter) ==
  Let(pollTypeD(s0, now, beacon), LAMBDA s :
    IF now >= s.nextPoll
      THEN Let(updateOnceRR(s, u, cfg, us, now, idle), LAMBDA p :
             [p EXCEPT !.s = armNextPoll(p.s, now, jitter)])
      ELSE [s |-> s, u |-> u])

\* The poller on its own: loop() is called once between two readings of the
\* clock that are SmbStepMs apart, beacons arrive or not, the bus lines are
\* idle or not, and the user switches the two bars on and off; hist.since
\* is the uptime, followed for a little more than one lap of millis().
SmbStepMs == MsMod \div 8
MaxAge == 4 * SmbStepMs
MaxSmbMs == MsMod + SmbStepMs
BodiesBars == {[enableCpu |-> cpu, enableFan |-> fan] : cpu \in BOOLEAN, fan \in BOOLEAN}
SmbTick ==
  /\ pc = "rgb" /\ pc' = "smbus"
  /\ hist.since + SmbStepMs <= MaxSmbMs
  /\ nowMs' = (nowMs + SmbStepMs) % MsMod
  /\ SetU([U EXCEPT !.smb.age = IF U.smb.seen THEN Min(@ + SmbStepMs, MaxAge) ELSE @,
                     !.hist.since = @ + SmbStepMs])
  /\ SetR(R)
  /\ UNCHANGED << msPrev, nowUs >>
SmbPoll ==
  /\ pc = "smbus" /\ pc' = "rgb"
  /\ \E beacon \in BOOLEAN, idle \in BOOLEAN, jitter \in {0, RGBSMBUS_JITTER_MAX_MS} :
       \E p \in {smbusLoop(U.smb, U, CFG, nowUs, nowMs, beacon, idle, jitter)} :
          SetU([p.u EXCEPT !.smb = p.s])
  /\ SetR(R)
  /\ UNCHANGED << msPrev, nowMs, nowUs >>
SmbBars ==
  /\ \E body \in BodiesBars, fx \in FxColors :
       \E h \in {HttpPreview(R, U, body, nowMs, fx)} : SetR(h.r) /\ SetU(h.u)
  /\ UNCHANGED << msPrev, nowMs, nowUs, pc >>
NextSmbus ==
  \/ SmbTick
  \/ SmbPoll
  \/ SmbBars
SpecSmbus == Init /\ [][NextSmbus]_vars

\* C39: a call of loop() made while a beacon was read less than 15000 ms
\* ago, or while enableCpu and enableFan are both false, puts nothing on the
\* bus (no probe, no read) and leaves the quiet window as it was.
GuardedPoll == (smb.seen /\ smb.age < RGBSMBUS_TYPE_D_TTL_MS) \/ (~CFG.enableCpu /\ ~CFG.enableFan)
GuardedPollsSilent ==
  [][GuardedPoll' => (smb'.bus = << >> /\ gQuietUntilUs' = gQuietUntilUs)]_vars
BeaconHoldsProbedBoard ==
  /\ smb.ran /\ smb.bus = << >> /\ smb.gBoardDetected
  /\ smb.seen /\ smb.age = SmbStepMs /\ CFG.enableCpu /\ CFG.enableFan
  /\ hist.since > MsMod

\* ------------------------------------------------------ the Wi-Fi manager
maxAttempts == 10
retryDelay == 3000
startPortal(w) == [w EXCEPT !.state = "PORTAL", !.portal = TRUE]
WiFiBegin(w, now) == [w EXCEPT !.lastAttempt = now, !.begun = TRUE, !.gap = 0]
tryConnect(w, now) ==
  IF w.ssid THEN [WiFiBegin(w, now) EXCEPT !.state = "CONNECTING", !.connectAttempts = 1]
  ELSE startPortal(w)
\* WiFiMgr::begin(): loadCreds, startPortal, tryConnect when an SSID is stored
wmBegin(w, now, stored) ==
  Let(startPortal([w EXCEPT !.ssid = stored]), LAMBDA w1 :
    IF w1.ssid THEN tryConnect(w1, now) ELSE w1)
\* (wmLoop_NoCount: a retry that does not count.)
wmLoop_NoCount(w, now, connected) ==
  IF w.state # "CONNECTING" THEN w
  ELSE IF connected THEN [w EXCEPT !.state = "CONNECTED"]
  ELSE IF ElapsedMs(now, w.lastAttempt) > retryDelay
    THEN IF w.connectAttempts >= maxAttempts THEN startPortal(w) ELSE WiFiBegin(w, now)
  ELSE w
\* WiFiMgr::loop()
wmLoop(w, now, connected) ==
  IF w.state # "CONNECTING" THEN w
  ELSE IF connected THEN [w EXCEPT !.state = "CONNECTED"]
  ELSE IF ElapsedMs(now, w.lastAttempt) > retryDelay
    THEN Let([w EXCEPT !.connectAttempts = @ + 1], LAMBDA w1 :
           IF w1.connectAttempts >= maxAttempts THEN startPortal(w1) ELSE WiFiBegin(w1, now))
  ELSE w

\* setup() calls begin() with or without stored credentials; then loop() is
\* called once per reading of the clock, WmStepMs apart, for ever, while the
\* access point answers or not.
WmStepMs == MsMod \div 32
MaxGap == 4 * WmStepMs
WmBegin ==
  /\ wm.at = "boot"
  /\ \E stored \in BOOLEAN :
       SetU([U EXCEPT !.wm = [wmBegin(wm, nowMs, stored) EXCEPT !.at = "loop"],
                      !.wifi = LinkDown])
  /\ SetR(R)
  /\ UNCHANGED << msPrev, nowMs, nowUs, pc >>
WmTick ==
  /\ wm.at = "tick"
  /\ nowMs' = (nowMs + WmStepMs) % MsMod
  /\ SetU([U EXCEPT !.wm.at = "loop", !.wm.gap = Min(@ + WmStepMs, MaxGap)])
  /\ SetR(R)
  /\ UNCHANGED << msPrev, nowUs, pc >>
WmLoop ==
  /\ wm.at = "loop"
  /\ \E w \in {wmLoop(U.wm, nowMs, wifi.up)} :
       SetU([U EXCEPT !.wm = [w EXCEPT !.at = "tick"],
                      !.wifi = IF w.state = "PORTAL" /\ wm.state = "CONNECTING"
                                 THEN LinkDown ELSE @])
  /\ SetR(R)
  /\ UNCHANGED << msPrev, nowMs, nowUs, pc >>
WmLink ==
  /\ wm.at # "boot" /\ wm.ssid
  /\ \E link \in {LinkDown, LinkUp(1)} : link # wifi /\ SetU([U EXCEPT !.wifi = link])
  /\ SetR(R)
  /\ UNCHANGED << msPrev, nowMs, nowUs, pc >>
NextWifi ==
  \/ WmBegin
  \/ WmTick
  \/ WmLoop
  \/ WmLink
\* Fairness: loop() is called for ever and time passes.
SpecWifi == Init /\ [][NextWifi]_vars /\ WF_vars(WmTick) /\ WF_vars(WmLoop)

\* C40: connectAttempts never exceeds maxAttempts, a retry comes more than
\* retryDelay after the WiFi.begin before it, and a cycle started by
\* tryConnect leaves CONNECTING: for CONNECTED when the link is up, or for
\* PORTAL with the portal started once the retries are used up.
ConnectCycleEnds ==
  /\ [](wm.connectAttempts <= maxAttempts)
  /\ []((wm.state = "PORTAL" /\ wm.at # "boot") => wm.portal)
  /\ [][(wm.state = "CONNECTING" /\ wm'.begun) => wm.gap > retryDelay]_vars
  /\ [][(wm.state = "CONNECTING" /\ wm'.state = "CONNECTED") => wifi.up]_vars
  /\ [][(wm.state = "CONNECTING" /\ wm'.state = "PORTAL")
          => (wm'.connectAttempts = maxAttempts /\ wm'.portal)]_vars
  /\ (wm.state = "CONNECTING") ~> (wm.state \in {"CONNECTED", "PORTAL"})
RetriesUsedUp ==
  /\ wm.state = "PORTAL" /\ wm.portal /\ wm.ssid
  /\ wm.connectAttempts = maxAttempts /\ nowMs < wm.lastAttempt
====
